---- MODULE Spec2Model ----
(***************************************************************************)
(* Model of mysql_slowlog_analyzer.py: the boundary scanner                *)
(* (compute_boundaries), the shard parser (parse_chunk with its nested     *)
(* add_entry and flush), the normaliser (normalize_sql) and the merger     *)
(* (merge_results).                                                        *)
(*                                                                         *)
(* Representation.                                                         *)
(*  - A log file is a sequence of lines.  A line is [k, v]: k is the kind  *)
(*    the parser's classification distinguishes and v is the sequence of   *)
(*    tokens after the kind's marker.  Byte offsets are computed from the  *)
(*    text of the lines (LineText, LineBytes).                             *)
(*  - SQL text is a sequence of tokens (words, literals, comments, ";"     *)
(*    and the newline that joins two buffered lines).                      *)
(*  - Python None is the string None for text fields and NoNum for         *)
(*    numeric fields; seconds are kept in tenths (1.5 s is 15).            *)
(*  - A dict is a sequence of entries in insertion order.                  *)
(*  - The MD5 digest is injective on the texts of the model: a fingerprint *)
(*    is represented by the normalised text it digests.                    *)
(***************************************************************************)
EXTENDS Integers, Sequences, FiniteSets, TLC

VARIABLES
    file,            \* the lines of the log file
    eol,             \* TRUE iff the last line of the file ends with "\n"
    loose_start,     \* --loose-start
    max_parts,       \* compute_boundaries' max_parts (args.jobs)
    min_time,        \* --min-time, in tenths of a second
    exclude_dumps,   \* --exclude-dumps
    mark_truncated,  \* --mark-truncated
    time_range,      \* <<>> (None) or <<target_start, target_end>>
    pc,              \* position of the run
    shards,          \* compute_boundaries' shard list, <<start, end>> pairs
    record_starts,   \* compute_boundaries' len(starts)
    text,            \* parse_chunk's text: the lines of the shard being parsed
    chunk,           \* the other locals of the parse_chunk call in progress
    pos,             \* number of lines of the current shard consumed
    parts,           \* the (local_map, stats) pairs returned so far
    merged,          \* merge_results' agg
    stats_total,     \* merge_results' stats_total
    nmerged,         \* number of parts merge_results has consumed
    order,           \* the order in which merge_results is handed the parts
    raised,          \* the exception that ended the run, or None
    sample_result,   \* <<>>, or <<the dict smart_time_range_check returned>>
    df,              \* build_dataframe's rows, in the order of the frame
    emitted,         \* TRUE once main has written the CSV
    sql_in,          \* the argument of a call of the normaliser
    sql_out,         \* what the call returned
    pool,            \* <<>>, or the worker pool of main's pool.map call
    results          \* the list pool.map fills: per task <<>>, or <<outcome>>

vars == <<file, eol, loose_start, max_parts, min_time, exclude_dumps,
          mark_truncated, time_range, pc, shards, record_starts, text, chunk, pos,
          parts, merged, stats_total, nmerged, order, raised, sample_result,
          df, emitted, sql_in, sql_out, pool, results>>

\* what the scan, parse and merge phases leave alone
report == <<sample_result, df, emitted, sql_in, sql_out, pool, results>>

config == <<file, eol, loose_start, max_parts, min_time, exclude_dumps,
            mark_truncated, time_range>>

-----------------------------------------------------------------------------
(* Bounds of the model *)

\* longest file, in lines
MaxLines == 4
\* largest max_parts
MaxParts == 2
\* files of at most this many lines may lack the final "\n"
MaxNoEolLines == 1
\* records of one record-wise run
MaxRecords == 3

-----------------------------------------------------------------------------
(* Python values *)

None == "<None>"
NoNum == -1

Truthy(s) == s # None /\ s # ""

Min2(a, b) == IF a <= b THEN a ELSE b
Max2(a, b) == IF a >= b THEN a ELSE b

RECURSIVE SumSeq(_)
SumSeq(s) == IF s = <<>> THEN 0 ELSE Head(s) + SumSeq(Tail(s))

RECURSIVE MaxSeq(_)
MaxSeq(s) == IF Len(s) = 1 THEN s[1] ELSE Max2(s[1], MaxSeq(Tail(s)))

RECURSIVE SortSet(_)
SortSet(S) ==
    IF S = {} THEN <<>>
    ELSE LET m == CHOOSE x \in S : \A y \in S : x <= y
         IN  <<m>> \o SortSet(S \ {m})

-----------------------------------------------------------------------------
(* Tokens of SQL text and their classes under the normaliser's patterns *)

NL == "\n"
\* a carriage return: a line end for str.splitlines, not for the scanner
CR == "\r"
SP == " "

\* re_mysql_hint_versioned: /*!NNNNN ... */
VersionedHints == {"/*!40001 SQL_NO_CACHE */"}
\* re_mysql_hint_simple: /*! ... */ not followed by five digits
SimpleHints == {"/*!STRAIGHT_JOIN */"}
\* re_mysql_hint_executor: /*+ ... */
ExecutorHints == {"/*+ USE_INDEX(t idx) */"}
\* re_block_comment: /* ... */ whose first character is neither ! nor +
BlockComments == {"/* TRUNCATED */", "/* c */"}
\* re_inline_comment: -- to the end of the line
LineComments == {"-- c"}
\* re_in_list, which ignores case and accepts one level of parentheses in
\* the list: "IN ('(', 1)" is no match, its parentheses do not pair
InLists == {"IN (1,2,3)", "IN (?)", "in (?)", "IN (?, ?)", "in (?, ?)"}
\* re_string
StringLiterals == {"'bob'"}
\* re_numeric
NumericLiterals == {"1", "2", "42"}
\* \s
Whitespace == {NL, SP}

\* str.lower() on the tokens that have upper-case letters
ToLower(t) ==
    CASE t = "SELECT" -> "select"
      [] t = "FROM"   -> "from"
      [] t = "UPDATE" -> "update"
      [] t = "SET"    -> "set"
      [] t = "IN (?)" -> "in (?)"
      [] t = "/* TRUNCATED */" -> "/* truncated */"
      [] t = "/*!40001 SQL_NO_CACHE */" -> "/*!40001 sql_no_cache */"
      [] t = "/*!STRAIGHT_JOIN */" -> "/*!straight_join */"
      [] t = "/*+ USE_INDEX(t idx) */" -> "/*+ use_index(t idx) */"
      [] t = "IN (1,2,3)" -> "in (1,2,3)"
      [] t = "IN (?, ?)" -> "in (?, ?)"
      [] t = "IN ('(', 1)" -> "in ('(', 1)"
      [] OTHER -> t

\* "sql_no_cache" in t.lower()
ContainsSqlNoCache(t) == ToLower(t) = "/*!40001 sql_no_cache */"
\* "/*!" in t
ContainsHintOpen(t) == t \in VersionedHints \cup SimpleHints

RECURSIVE StripLeft(_, _)
StripLeft(s, drop) ==
    IF s # <<>> /\ Head(s) \in drop THEN StripLeft(Tail(s), drop) ELSE s

RECURSIVE StripRight(_, _)
StripRight(s, drop) ==
    IF s # <<>> /\ s[Len(s)] \in drop
    THEN StripRight(SubSeq(s, 1, Len(s) - 1), drop) ELSE s

\* str.strip()
Strip(s) == StripRight(StripLeft(s, Whitespace), Whitespace)

\* pattern.sub(" ", s) for a pattern that matches exactly the tokens of class
Blanked(s, class) == [i \in 1..Len(s) |-> IF s[i] \in class THEN SP ELSE s[i]]

\* token i is in the match of re_inline_comment, which runs from "--" to
\* the end of the line
InLineComment(s, i) ==
    \E j \in 1..i : s[j] \in LineComments /\ \A k \in j..i : s[k] # NL

\* re_inline_comment.sub(" ", s)
BlankedToLineEnd(s) ==
    [i \in 1..Len(s) |-> IF InLineComment(s, i) THEN SP ELSE s[i]]

\* pattern.sub(to, t) on one token: a token of the class is replaced, and so
\* are the literals inside a token that is no IN list for re_in_list
Sub(t, class, to) ==
    CASE t \in class -> to
      [] t = "IN ('(', 1)" /\ class = StringLiterals -> "IN (?, 1)"
      [] t = "IN (?, 1)" /\ class = NumericLiterals -> "IN (?, ?)"
      [] OTHER -> t

\* pattern.sub(to, s)
Replaced(s, class, to) == [i \in 1..Len(s) |-> Sub(s[i], class, to)]

\* re_whitespace.sub(" ", s): tokens are separated by one blank, so a run of
\* white space between two tokens is no token at all; leading and trailing
\* runs are removed by the strip that follows it in normalize_sql
CollapseWhitespace(s) == SelectSeq(s, LAMBDA t : t \notin Whitespace)

normalize_sql(sql) ==
    LET s0  == Strip(sql)
        s1  == Blanked(s0, VersionedHints)
        s2  == Blanked(s1, SimpleHints)
        s3  == Blanked(s2, ExecutorHints)
        s4  == Blanked(s3, BlockComments)
        s5  == BlankedToLineEnd(s4)
        s6  == Replaced(s5, InLists, "IN (?)")
        s7  == Replaced(s6, StringLiterals, "?")
        s8  == Replaced(s7, NumericLiterals, "?")
        s9  == CollapseWhitespace(s8)
        s10 == StripRight(s9, {";"})
    IN  [i \in 1..Len(s10) |-> ToLower(s10[i])]

fingerprint(sql) == normalize_sql(sql)

\* [`"\w\.\-]+ matches a prefix of the token
IdentStart(t) == t \in {"t", "users", "a", "SET", "mysqld", "started"}

\* the token after the first keyword kw (any case) that is followed by white
\* space and an identifier, or None
RECURSIVE AfterKeyword(_, _)
AfterKeyword(sql, kw) ==
    IF Len(sql) < 2 THEN None
    ELSE IF ToLower(sql[1]) = kw
         THEN LET rest == StripLeft(Tail(sql), Whitespace)
              IN  IF rest # <<>> /\ IdentStart(Head(rest)) THEN Head(rest)
                  ELSE AfterKeyword(Tail(sql), kw)
         ELSE AfterKeyword(Tail(sql), kw)

extract_main_table(sql) ==
    IF AfterKeyword(sql, "from") # None THEN AfterKeyword(sql, "from")
    ELSE IF AfterKeyword(sql, "update") # None THEN AfterKeyword(sql, "update")
    ELSE AfterKeyword(sql, "into")

\* characters of the text of a token sequence: ";" follows its token
\* directly, a newline replaces the blank between two tokens
RECURSIVE CharLen(_)
CharLen(s) ==
    IF s = <<>> THEN 0
    ELSE IF Len(s) = 1 THEN Len(s[1])
    ELSE Len(s[1])
         + (IF s[1] = NL \/ s[2] = NL \/ s[2] = ";" THEN 0 ELSE 1)
         + CharLen(Tail(s))

\* sql[:1500]
ExampleLimit == 1500

RECURSIVE Truncate(_, _)
Truncate(s, n) ==
    IF s = <<>> \/ n <= 0 THEN <<>>
    ELSE IF CharLen(s) <= n THEN s
    ELSE IF Len(s[1]) > n THEN <<"<cut>">>
    ELSE <<s[1]>> \o Truncate(Tail(s), n - Len(s[1])
                      - (IF Len(s) > 1 /\ s[1] # NL /\ s[2] # NL /\ s[2] # ";"
                         THEN 1 ELSE 0))

-----------------------------------------------------------------------------
(* Lines of the log file *)

TimeLine(v)  == [k |-> "time",  v |-> v]
QueryTimeLine(v) == [k |-> "qtime", v |-> v]
UseLine(v)   == [k |-> "use",   v |-> v]
SetTimestampLine(v) == [k |-> "setts", v |-> v]
CommentLine(v) == [k |-> "hash", v |-> v]
BlankLine    == [k |-> "blank", v |-> <<>>]
SqlLine(v)   == [k |-> "sql",   v |-> v]
\* text that a "\n" ends and that holds a "\r": the SQL text sql, "\r", and
\* "# Time: t"
CrTimeLine(sql, t) == [k |-> "crtime", v |-> sql \o <<CR, t>>]

\* str.splitlines on the text of a line: "\r" ends a line too
SplitLines(l) ==
    IF l.k = "crtime"
    THEN <<SqlLine(SubSeq(l.v, 1, Len(l.v) - 2)), TimeLine(<<l.v[Len(l.v)]>>)>>
    ELSE <<l>>

\* the text that begins a line of each kind
Marker(k) ==
    CASE k = "time"  -> "# Time:"
      [] k = "qtime" -> "# Query_time:"
      [] k = "use"   -> "use"
      [] k = "setts" -> "SET timestamp="
      [] k = "hash"  -> "#"
      [] OTHER       -> ""

RECURSIVE TokensLen(_)
TokensLen(v) == IF v = <<>> THEN 0 ELSE 1 + Len(Head(v)) + TokensLen(Tail(v))

\* characters of a line, without its line end
LineText(l) ==
    CASE l.k \in {"sql", "crtime"} ->
             CharLen(IF l.k = "sql" THEN l.v ELSE SubSeq(l.v, 1, Len(l.v) - 2))
             + (IF l.k = "sql" THEN 0
                ELSE 1 + Len(Marker("time")) + 1 + Len(l.v[Len(l.v)]))
      [] l.k = "blank" -> 0
      [] l.k = "setts" -> Len(Marker(l.k)) + Len(l.v[1]) + 1
      [] l.k = "use"   -> Len(Marker(l.k)) + 1 + Len(l.v[1]) + 1
      [] OTHER         -> Len(Marker(l.k)) + TokensLen(l.v)

\* bytes of line i of f, with its line end
LineBytes(f, e, i) == LineText(f[i]) + (IF i = Len(f) /\ ~e THEN 0 ELSE 1)

RECURSIVE Offset(_, _, _)
\* byte offset of the first character of line i (of the end of the file for
\* i = Len(f) + 1)
Offset(f, e, i) == IF i = 1 THEN 0 ELSE Offset(f, e, i - 1) + LineBytes(f, e, i - 1)

\* mm.size()
FileSize(f, e) == Offset(f, e, Len(f) + 1)

\* mm[:n] == needle, for a needle that is the marker of line kind k
HeadEquals(f, e, n, k) ==
    /\ f # <<>>
    /\ f[1].k = k
    /\ Min2(n, FileSize(f, e)) = Len(Marker(k))

\* _find_all(mm, b"\n" + marker of kind k): the offsets of the lines of kind
\* k that follow a line end
FindAll(f, e, k) == {Offset(f, e, i) : i \in {j \in 2..Len(f) : f[j].k = k}}

\* int(round(a / b)): Python rounds a half to the even neighbour
RoundDiv(a, b) ==
    LET q == a \div b
        r == a % b
    IN  IF 2 * r < b THEN q
        ELSE IF 2 * r > b THEN q + 1
        ELSE IF q % 2 = 0 THEN q ELSE q + 1

\* the set of record starts compute_boundaries collects
RecordStarts(f, e, loose) ==
    IF loose
    THEN (IF HeadEquals(f, e, 7, "time") THEN {0} ELSE {})
         \cup (IF HeadEquals(f, e, 14, "qtime") THEN {0} ELSE {})
         \cup FindAll(f, e, "time") \cup FindAll(f, e, "qtime")
    ELSE (IF HeadEquals(f, e, 7, "time") THEN {0} ELSE {})
         \cup FindAll(f, e, "time")

\* the shard list of compute_boundaries for a file that can be mapped
ShardList(f, e, nparts, loose) ==
    LET starts == SortSet(RecordStarts(f, e, loose))
        n      == Len(starts)
        size   == FileSize(f, e)
        np     == Min2(nparts, Max2(1, n))
        idxs   == SortSet({Max2(0, Min2(RoundDiv(i * n, np), n)) : i \in 0..np})
        pairs  == [j \in 1..(Len(idxs) - 1) |->
                      <<starts[idxs[j] + 1],
                        IF idxs[j + 1] < n THEN starts[idxs[j + 1] + 1] ELSE size>>]
    IN  IF n = 0 THEN <<(<<0, size>>)>>
        ELSE IF pairs = <<>> THEN <<(<<0, size>>)>>
        ELSE pairs

\* the lines parse_chunk reads from the byte range [start, end), split by
\* str.splitlines: shard boundaries are offsets of line starts, so a range
\* holds whole lines
RECURSIVE LinesFrom(_, _, _, _, _)
LinesFrom(f, e, i, start, end) ==
    IF i > Len(f) THEN <<>>
    ELSE (IF start <= Offset(f, e, i) /\ Offset(f, e, i) < end
          THEN SplitLines(f[i]) ELSE <<>>) \o LinesFrom(f, e, i + 1, start, end)

ShardLines(f, e, start, end) == LinesFrom(f, e, 1, start, end)

-----------------------------------------------------------------------------
(* Values read from header lines *)

\* strings matched by [\d\.]+ that float() accepts, in tenths
FloatTenths(t) ==
    CASE t = "0.1" -> 1
      [] t = "0.5" -> 5
      [] t = "1.5" -> 15
      [] t = "3.0" -> 30
      [] t = "1"   -> 10
      [] t = "10"  -> 100
      [] OTHER     -> NoNum

\* strings matched by [\d\.]+ ; float() raises ValueError on the last two
DigitDot == {"0.1", "0.5", "1.5", "3.0", "1", "10", "1.2.3", "."}

\* strings matched by \d+
Digits == {"1", "10"}

\* the digit strings of the SET timestamp lines
TimestampDigits == {"1705314600", "1705401000"}

\* int() of a digit string
IntOf(t) == CASE t = "1" -> 1 [] t = "10" -> 10 [] OTHER -> NoNum

\* parse_mysql_time: the moment in epoch seconds, or NoNum for None
parse_mysql_time(s) ==
    CASE s = "2024-01-15T10:30:00Z" -> 1705314600
      [] s = "2024-01-16T10:30:00Z" -> 1705401000
      [] s = "1705314600"           -> 1705314600
      [] s = "1705401000"           -> 1705401000
      [] s = "240115 10:30:00"      -> 1705314600
      [] OTHER                      -> NoNum

\* position of a timestamp string in Python's str order
StrRank(s) ==
    CASE s = "1705314600"           -> 1
      [] s = "1705401000"           -> 2
      [] s = "2024-01-15T10:30:00Z" -> 3
      [] s = "2024-01-16T10:30:00Z" -> 4
      [] s = "240115 10:30:00"      -> 5
      [] s = "garbage"              -> 6
      [] OTHER                      -> 0

StrLess(a, b) == StrRank(a) < StrRank(b)

\* re.search(key + r"\s*(pattern)", l): the token after the first key token,
\* when it is in the pattern's class
RECURSIVE Field(_, _, _)
Field(v, key, class) ==
    IF Len(v) < 2 THEN None
    ELSE IF v[1] = key /\ v[2] \in class THEN v[2]
    ELSE Field(Tail(v), key, class)

\* [^\s]+
NonSpace == DigitDot \cup {"2024-01-15T10:30:00Z", "2024-01-16T10:30:00Z",
                           "1705314600", "1705401000", "garbage"}

-----------------------------------------------------------------------------
(* smart_time_range_check: the sampler *)

\* max_sample_size
MaxSampleSize == 10485760
\* chunk.split('\n')[:200]
SampleLineLimit == 200

\* parse_mysql_time of the first n characters of the time string t
PrefixMoment(t, n) ==
    IF n >= Len(t) THEN parse_mysql_time(t)
    ELSE IF t = "240115 10:30:00" /\ n = 14 THEN parse_mysql_time(t)
    ELSE NoNum

\* the moment the sampler reads from a line of which it sees the first n
\* characters, or NoNum
SampledMoment(l, n) ==
    CASE l.k = "time" ->
           IF n < Len(Marker("time")) \/ l.v = <<>> THEN NoNum
           ELSE PrefixMoment(l.v[1], n - Len(Marker("time")) - 1)
      [] l.k = "setts" ->
           IF n = LineText(l) /\ l.v # <<>> /\ l.v[1] \in TimestampDigits
           THEN parse_mysql_time(l.v[1]) ELSE NoNum
      [] OTHER -> NoNum

\* index, in chunk.split('\n'), of the piece that holds line i when the
\* chunk begins at byte p
PieceIndex(f, e, p, i) ==
    1 + Cardinality({j \in 1..(i - 1) : Offset(f, e, j) + LineText(f[j]) >= p})

RECURSIVE SeenFrom(_, _, _, _, _)
\* the moments read from the chunk of ss bytes at p, from line i on: a line
\* is examined when the chunk holds its first byte and it is among the first
\* SampleLineLimit pieces
SeenFrom(f, e, p, ss, i) ==
    IF i > Len(f) THEN <<>>
    ELSE LET o == Offset(f, e, i)
             m == IF p <= o /\ o < p + ss
                     /\ PieceIndex(f, e, p, i) <= SampleLineLimit
                  THEN SampledMoment(f[i], Min2(LineText(f[i]), p + ss - o))
                  ELSE NoNum
         IN  (IF m = NoNum THEN <<>> ELSE <<m>>) \o SeenFrom(f, e, p, ss, i + 1)

\* sample_times: the moments of the head, middle and tail chunks
SampleTimes(f, e) ==
    LET size == FileSize(f, e)
        ss   == Min2(MaxSampleSize, size \div 3)
    IN  SeenFrom(f, e, 0, ss, 1)
        \o SeenFrom(f, e, Max2(0, size \div 2 - ss \div 2), ss, 1)
        \o SeenFrom(f, e, Max2(0, size - ss), ss, 1)

RECURSIVE MinSeq(_)
MinSeq(s) == IF Len(s) = 1 THEN s[1] ELSE Min2(s[1], MinSeq(Tail(s)))

\* estimated_coverage, a fraction <<numerator, denominator>>, and
\* coverage_type, for a file envelope [fs, fe] and a target [ts, te]
Coverage(fs, fe, ts, te, has_data) ==
    IF ~has_data THEN [coverage |-> <<0, 1>>, type |-> "unknown"]
    ELSE IF Max2(fs, ts) > Min2(fe, te)
         THEN [coverage |-> <<0, 1>>, type |-> "no_overlap"]
    ELSE IF fs >= ts /\ fe <= te
         THEN [coverage |-> <<1, 1>>, type |-> "full_file_in_range"]
    ELSE IF ts >= fs /\ te <= fe
         THEN [coverage |-> <<1, 1>>, type |-> "full_range_covered"]
    ELSE LET overlap == Min2(fe, te) - Max2(fs, ts)
             dur     == fe - fs
         IN  IF dur <= 0 THEN [coverage |-> <<0, 1>>, type |-> "unknown"]
             ELSE IF 5 * overlap > 4 * dur
                  THEN [coverage |-> <<9, 10>>, type |-> "mostly_covered"]
             ELSE IF 2 * overlap > dur
                  THEN [coverage |-> <<7, 10>>, type |-> "partially_covered"]
             ELSE [coverage |-> <<overlap, 2 * dur>>, type |-> "limited_overlap"]

\* smart_time_range_check(file, tr) for a time range tr that is set; keys
\* the returned dict lacks are None
smart_time_range_check(f, e, tr) ==
    LET times == SampleTimes(f, e)
    IN  IF times = <<>>
        THEN [has_data_in_range |-> TRUE, estimated_coverage |-> <<0, 1>>,
              coverage_type |-> None, reason |-> "no_timestamps_found",
              sample_times |-> <<>>, file_time_range |-> <<>>,
              sample_count |-> 0]
        ELSE LET fs  == MinSeq(times)
                 fe  == MaxSeq(times)
                 has == \E i \in 1..Len(times) :
                            tr[1] <= times[i] /\ times[i] <= tr[2]
                 cov == Coverage(fs, fe, tr[1], tr[2], has)
             IN  [has_data_in_range |-> has,
                  estimated_coverage |-> cov.coverage,
                  coverage_type |-> cov.type, reason |-> None,
                  sample_times |-> times, file_time_range |-> <<fs, fe>>,
                  sample_count |-> Len(times)]

-----------------------------------------------------------------------------
(* parse_chunk: its locals *)

EmptyStats ==
    [time_lines |-> 0, qtime_lines |-> 0, parsed_records |-> 0,
     filtered_min_time |-> 0, filtered_dumps |-> 0, truncated_records |-> 0,
     filtered_time_range |-> 0]

StatKeys == DOMAIN EmptyStats

\* the fields of current that the parser assigns or add_entry reads
EmptyCurrent ==
    [time |-> None, user_host |-> None, query_time |-> NoNum,
     lock_time |-> NoNum, rows_sent |-> NoNum, rows_examined |-> NoNum,
     start |-> None, end |-> None, db |-> None, set_timestamp |-> None]

NewChunk ==
    [current |-> EmptyCurrent, sql_buf |-> <<>>, last_db |-> None,
     started |-> FALSE, result |-> <<>>, stats |-> EmptyStats,
     raised |-> None]

\* result.get(fp): the index of the group, or 0
RECURSIVE FindGroup(_, _)
FindGroup(map, fp) ==
    IF map = <<>> THEN 0
    ELSE IF map[Len(map)].fingerprint = fp THEN Len(map)
    ELSE FindGroup(SubSeq(map, 1, Len(map) - 1), fp)

\* "\n".join(sql_buf)
RECURSIVE Join(_)
Join(buf) ==
    IF buf = <<>> THEN <<>>
    ELSE IF Len(buf) = 1 THEN buf[1]
    ELSE buf[1] \o <<NL>> \o Join(Tail(buf))

-----------------------------------------------------------------------------
(* parse_chunk.add_entry *)

\* target_start <= parse_mysql_time(val) <= target_end, for a present val
InTarget(val) ==
    /\ Truthy(val)
    /\ parse_mysql_time(val) # NoNum
    /\ time_range[1] <= parse_mysql_time(val)
    /\ parse_mysql_time(val) <= time_range[2]

\* a variant of the time-range check whose fallbacks stop at start
TimeInRangeWithoutEnd(entry) ==
    IF InTarget(entry.time) THEN TRUE
    ELSE IF InTarget(entry.set_timestamp) THEN TRUE
    ELSE InTarget(entry.start)

\* the time-range check: the primary source, then the fallbacks in order
TimeInRange(entry) ==
    IF InTarget(entry.time) THEN TRUE
    ELSE IF InTarget(entry.set_timestamp) THEN TRUE
    ELSE IF InTarget(entry.start) THEN TRUE
    ELSE InTarget(entry.end)

\* a variant of the filter chain that checks min_time before the dump
\* detection
VerdictMinTimeFirst(entry) ==
    LET sql == Strip(entry.sql)
    IN  IF sql = <<>> THEN "empty"
        ELSE IF entry.query_time # NoNum /\ entry.query_time < min_time
             THEN "min_time"
        ELSE IF /\ exclude_dumps
                /\ \E i \in 1..Len(sql) : ContainsSqlNoCache(sql[i])
                /\ \E i \in 1..Len(sql) : ContainsHintOpen(sql[i])
             THEN "dump"
        ELSE IF entry.query_time = NoNum THEN "no_query_time"
        ELSE IF time_range # <<>> /\ ~TimeInRange(entry) THEN "time_range"
        ELSE "accept"

\* the return add_entry takes: "empty", "dump", "no_query_time", "min_time",
\* "time_range", or "accept"
Verdict(entry) ==
    LET sql == Strip(entry.sql)
    IN  IF sql = <<>> THEN "empty"
        ELSE IF /\ exclude_dumps
                /\ \E i \in 1..Len(sql) : ContainsSqlNoCache(sql[i])
                /\ \E i \in 1..Len(sql) : ContainsHintOpen(sql[i])
             THEN "dump"
        ELSE IF entry.query_time = NoNum THEN "no_query_time"
        ELSE IF entry.query_time < min_time THEN "min_time"
        ELSE IF time_range # <<>> /\ ~TimeInRange(entry) THEN "time_range"
        ELSE "accept"

\* a variant of the round that updates last_seen only when it has not
\* updated first_seen
SeenStepEither(g, val) ==
    IF ~Truthy(val) THEN g
    ELSE IF g.first_seen = None \/ StrLess(val, g.first_seen)
         THEN [g EXCEPT !.first_seen = val]
    ELSE IF g.last_seen = None \/ StrLess(g.last_seen, val)
         THEN [g EXCEPT !.last_seen = val]
    ELSE g

\* one round of the first_seen / last_seen loop
SeenStep(g, val) ==
    IF ~Truthy(val) THEN g
    ELSE LET g1 == IF g.first_seen = None \/ StrLess(val, g.first_seen)
                   THEN [g EXCEPT !.first_seen = val] ELSE g
         IN  IF g1.last_seen = None \/ StrLess(g1.last_seen, val)
             THEN [g1 EXCEPT !.last_seen = val] ELSE g1

NewGroup(fp, sql, entry, truncated) ==
    [fingerprint |-> fp, samples |-> 0, total_time_s |-> 0, max_time_s |-> 0,
     sum_lock_time_s |-> 0, rows_examined_total |-> 0, rows_sent_total |-> 0,
     durations |-> <<>>, first_seen |-> None, last_seen |-> None,
     norm_sql |-> normalize_sql(sql),
     example_query |-> Truncate(sql, ExampleLimit),
     db |-> entry.db, user_host |-> entry.user_host,
     main_table |-> extract_main_table(sql),
     has_truncated |-> truncated]

\* a variant of the counting that keeps the query_time of the last entry as
\* the maximum
CountedKeepsLastTime(g, entry) ==
    LET qt == entry.query_time
        g1 == [g EXCEPT
                 !.samples = @ + 1,
                 !.total_time_s = @ + qt,
                 !.durations = Append(@, qt),
                 !.max_time_s = qt,
                 !.sum_lock_time_s =
                     IF entry.lock_time # NoNum THEN @ + entry.lock_time ELSE @,
                 !.rows_examined_total =
                     IF entry.rows_examined # NoNum THEN @ + entry.rows_examined ELSE @,
                 !.rows_sent_total =
                     IF entry.rows_sent # NoNum THEN @ + entry.rows_sent ELSE @]
    IN  SeenStep(SeenStep(SeenStep(SeenStep(g1, entry.time), entry.start),
                          entry.end), entry.set_timestamp)

\* the group after an accepted entry has been counted into it
Counted(g, entry) ==
    LET qt == entry.query_time
        g1 == [g EXCEPT
                 !.samples = @ + 1,
                 !.total_time_s = @ + qt,
                 !.durations = Append(@, qt),
                 !.max_time_s = IF qt > @ THEN qt ELSE @,
                 !.sum_lock_time_s =
                     IF entry.lock_time # NoNum THEN @ + entry.lock_time ELSE @,
                 !.rows_examined_total =
                     IF entry.rows_examined # NoNum THEN @ + entry.rows_examined ELSE @,
                 !.rows_sent_total =
                     IF entry.rows_sent # NoNum THEN @ + entry.rows_sent ELSE @]
    IN  SeenStep(SeenStep(SeenStep(SeenStep(g1, entry.time), entry.start),
                          entry.end), entry.set_timestamp)

\* the SQL text add_entry fingerprints
MarkedSql(sql, truncated) ==
    IF truncated /\ mark_truncated THEN sql \o <<"/* TRUNCATED */">> ELSE sql

\* the group map after an accepted entry
Accepted(map, entry, truncated) ==
    LET sql == MarkedSql(Strip(entry.sql), truncated)
        fp  == fingerprint(sql)
        at  == FindGroup(map, fp)
    IN  IF at = 0
        THEN Append(map, Counted(NewGroup(fp, sql, entry, truncated), entry))
        ELSE [map EXCEPT ![at] =
                 Counted(IF truncated THEN [@ EXCEPT !.has_truncated = TRUE] ELSE @,
                         entry)]

\* add_entry(entry, truncated) on the shard's map and stats
add_entry(map, stats, entry, truncated) ==
    LET v == Verdict(entry)
    IN  CASE v = "dump" ->
               [result |-> map,
                stats  |-> [stats EXCEPT !.filtered_dumps = @ + 1]]
          [] v = "min_time" ->
               [result |-> map,
                stats  |-> [stats EXCEPT !.filtered_min_time = @ + 1]]
          [] v = "time_range" ->
               [result |-> map,
                stats  |-> [stats EXCEPT !.filtered_time_range = @ + 1]]
          [] v = "accept" ->
               [result |-> Accepted(map, entry, truncated), stats |-> stats]
          [] OTHER -> [result |-> map, stats |-> stats]

-----------------------------------------------------------------------------
(* parse_chunk.flush and the line loop *)

Row(current, last_db, sql) ==
    [time |-> current.time, user_host |-> current.user_host,
     query_time |-> current.query_time, lock_time |-> current.lock_time,
     rows_sent |-> current.rows_sent, rows_examined |-> current.rows_examined,
     start |-> current.start, end |-> current.end,
     db |-> IF Truthy(current.db) THEN current.db ELSE last_db,
     set_timestamp |-> current.set_timestamp, sql |-> sql]

\* a variant of flush that counts a record only when add_entry changed the
\* map or a filter counter
FlushCountsHandled(c, truncated) ==
    LET sql == Strip(Join(c.sql_buf))
        out == add_entry(c.result, c.stats, Row(c.current, c.last_db, sql),
                         truncated)
    IN  IF sql # <<>> /\ (out.result # c.result \/ out.stats # c.stats)
        THEN [c EXCEPT !.result = out.result,
                       !.stats = [out.stats EXCEPT !.parsed_records = @ + 1],
                       !.current = EmptyCurrent, !.sql_buf = <<>>]
        ELSE [c EXCEPT !.result = out.result, !.stats = out.stats,
                       !.current = EmptyCurrent, !.sql_buf = <<>>]

flush(c, truncated) ==
    LET sql == Strip(Join(c.sql_buf))
        out == add_entry(c.result, c.stats, Row(c.current, c.last_db, sql),
                         truncated)
    IN  IF sql # <<>>
        THEN [c EXCEPT !.result = out.result,
                       !.stats = [out.stats EXCEPT !.parsed_records = @ + 1],
                       !.current = EmptyCurrent, !.sql_buf = <<>>]
        ELSE [c EXCEPT !.current = EmptyCurrent, !.sql_buf = <<>>]

\* l.startswith("# Time:")
TimeHeader(c, l) ==
    LET c1 == [c EXCEPT !.stats.time_lines = @ + 1]
        c2 == IF c1.sql_buf # <<>> /\ c1.started THEN flush(c1, FALSE) ELSE c1
    IN  [c2 EXCEPT !.started = TRUE,
                   !.current.time = IF l.v = <<>> THEN "" ELSE l.v[1]]

\* l.startswith("# Query_time:")
QueryTimeHeader(c, l) ==
    LET c1 == [c EXCEPT !.stats.qtime_lines = @ + 1]
        c2 == IF loose_start /\ ~c1.started
              THEN [(IF c1.sql_buf # <<>> THEN flush(c1, FALSE) ELSE c1)
                       EXCEPT !.started = TRUE]
              ELSE c1
        qt == IF l.v # <<>> /\ l.v[1] \in DigitDot THEN l.v[1] ELSE None
        lt == Field(l.v, "Lock_time:", DigitDot)
        rs == Field(l.v, "Rows_sent:", Digits)
        rexa == Field(l.v, "Rows_examined:", Digits)
        st == Field(l.v, "Start:", NonSpace)
        en == Field(l.v, "End:", NonSpace)
    IN  IF \/ qt # None /\ FloatTenths(qt) = NoNum
           \/ lt # None /\ FloatTenths(lt) = NoNum
        THEN [c2 EXCEPT !.raised = "ValueError"]
        ELSE [c2 EXCEPT
                !.current.query_time = IF qt # None THEN FloatTenths(qt) ELSE @,
                !.current.lock_time = IF lt # None THEN FloatTenths(lt) ELSE @,
                !.current.rows_sent = IF rs # None THEN IntOf(rs) ELSE @,
                !.current.rows_examined = IF rexa # None THEN IntOf(rexa) ELSE @,
                !.current.start = IF st # None THEN st ELSE @,
                !.current.end = IF en # None THEN en ELSE @]

\* re.match(r"\s*use\s+([`\"\w\.\-]+);", l)
UseStatement(c, l) ==
    [c EXCEPT !.current.db = l.v[1], !.last_db = l.v[1]]

\* l.startswith("SET timestamp=")
SetTimestamp(c, l) ==
    IF l.v # <<>> /\ l.v[1] \in TimestampDigits
    THEN [c EXCEPT !.current.set_timestamp = l.v[1]]
    ELSE c

\* sql_buf.append(l)
SqlText(c, l) == [c EXCEPT !.sql_buf = Append(@, l.v)]

\* one round of "for l in text"
LineStep(c, l) ==
    CASE l.k = "time"  -> TimeHeader(c, l)
      [] l.k = "qtime" -> QueryTimeHeader(c, l)
      [] l.k = "use"   -> UseStatement(c, l)
      [] l.k = "setts" -> SetTimestamp(c, l)
      [] l.k = "hash"  -> c
      [] l.k = "blank" -> c
      [] OTHER         -> SqlText(c, l)

\* the tail flush
TailFlush(c) ==
    IF c.sql_buf # <<>>
    THEN flush([c EXCEPT !.stats.truncated_records = @ + 1], TRUE)
    ELSE c

\* parse_chunk over a sequence of lines: the chunk at its return, or at the
\* statement that raised
RECURSIVE RunLines(_, _)
RunLines(c, ls) ==
    IF c.raised # None THEN c
    ELSE IF ls = <<>> THEN TailFlush(c)
    ELSE RunLines(LineStep(c, Head(ls)), Tail(ls))

parse_chunk(f, e, start, end) == RunLines(NewChunk, ShardLines(f, e, start, end))

-----------------------------------------------------------------------------
(* merge_results *)

\* a variant of the merge that keeps the first_seen of the group merged last
CombinedKeepsLastSeen(t, g) ==
    [t EXCEPT
       !.samples = @ + g.samples,
       !.total_time_s = @ + g.total_time_s,
       !.max_time_s = Max2(@, g.max_time_s),
       !.sum_lock_time_s = @ + g.sum_lock_time_s,
       !.rows_examined_total = @ + g.rows_examined_total,
       !.rows_sent_total = @ + g.rows_sent_total,
       !.durations = @ \o g.durations,
       !.first_seen = IF Truthy(g.first_seen) THEN g.first_seen ELSE @,
       !.last_seen = IF Truthy(g.last_seen)
                        /\ (@ = None \/ StrLess(@, g.last_seen))
                     THEN g.last_seen ELSE @,
       !.has_truncated = @ \/ g.has_truncated,
       !.db = IF ~Truthy(@) /\ Truthy(g.db) THEN g.db ELSE @,
       !.user_host = IF ~Truthy(@) /\ Truthy(g.user_host) THEN g.user_host ELSE @,
       !.main_table = IF ~Truthy(@) /\ Truthy(g.main_table) THEN g.main_table ELSE @]

\* the else branch of the merge loop: group g of a part merged into t of agg
Combined(t, g) ==
    [t EXCEPT
       !.samples = @ + g.samples,
       !.total_time_s = @ + g.total_time_s,
       !.max_time_s = Max2(@, g.max_time_s),
       !.sum_lock_time_s = @ + g.sum_lock_time_s,
       !.rows_examined_total = @ + g.rows_examined_total,
       !.rows_sent_total = @ + g.rows_sent_total,
       !.durations = @ \o g.durations,
       !.first_seen = IF Truthy(g.first_seen)
                         /\ (@ = None \/ StrLess(g.first_seen, @))
                      THEN g.first_seen ELSE @,
       !.last_seen = IF Truthy(g.last_seen)
                        /\ (@ = None \/ StrLess(@, g.last_seen))
                     THEN g.last_seen ELSE @,
       !.has_truncated = @ \/ g.has_truncated,
       !.db = IF ~Truthy(@) /\ Truthy(g.db) THEN g.db ELSE @,
       !.user_host = IF ~Truthy(@) /\ Truthy(g.user_host) THEN g.user_host ELSE @,
       !.main_table = IF ~Truthy(@) /\ Truthy(g.main_table) THEN g.main_table ELSE @]

\* a variant of the round that overwrites the group agg holds
MergeGroupOverwrites(agg, g) ==
    LET at == FindGroup(agg, g.fingerprint)
    IN  IF at = 0 THEN Append(agg, g)
        ELSE [agg EXCEPT ![at] = g]

\* one round of "for fp, g in d.items()"
MergeGroup(agg, g) ==
    LET at == FindGroup(agg, g.fingerprint)
    IN  IF at = 0 THEN Append(agg, g)
        ELSE [agg EXCEPT ![at] = Combined(@, g)]

RECURSIVE MergeGroups(_, _)
MergeGroups(agg, d) ==
    IF d = <<>> THEN agg ELSE MergeGroups(MergeGroup(agg, Head(d)), Tail(d))

\* one round of "for d, st in parts"
MergeOne(m, part) ==
    [agg   |-> MergeGroups(m.agg, part.result),
     stats |-> [k \in StatKeys |-> m.stats[k] + part.stats[k]]]

RECURSIVE MergeFrom(_, _)
MergeFrom(m, ps) ==
    IF ps = <<>> THEN m ELSE MergeFrom(MergeOne(m, Head(ps)), Tail(ps))

merge_results(ps) == MergeFrom([agg |-> <<>>, stats |-> EmptyStats], ps)

-----------------------------------------------------------------------------
(* The inputs of the model *)

SeqsUpTo(S, n) == UNION {[1..m -> S] : m \in 0..n}

Select1 == <<"SELECT", "1", ";">>

LineAlphabet ==
    { TimeLine(<<"2024-01-15T10:30:00Z">>),
      QueryTimeLine(<<"1.5", "Lock_time:", "0.1", "Rows_sent:", "1",
                      "Rows_examined:", "10">>),
      QueryTimeLine(<<"1.2.3">>),
      QueryTimeLine(<<>>),
      UseLine(<<"a">>),
      SetTimestampLine(<<"1705314600">>),
      CommentLine(<<"User@Host:", "root">>),
      BlankLine,
      SqlLine(Select1),
      CrTimeLine(Select1, "2024-01-15T10:30:00Z") }

Files == SeqsUpTo(LineAlphabet, MaxLines)

\* the records of the record-wise runs: each begins with a "# Time:" line
\* and ends with its SQL line
Rows1 == <<"Lock_time:", "0.1", "Rows_sent:", "1", "Rows_examined:", "10">>

Records ==
    { <<TimeLine(<<"2024-01-15T10:30:00Z">>), UseLine(<<"a">>),
        QueryTimeLine(<<"1.5">> \o Rows1), SqlLine(Select1)>>,
      <<TimeLine(<<"240115 10:30:00">>), UseLine(<<"b">>),
        QueryTimeLine(<<"3.0">>), SetTimestampLine(<<"1705314600">>),
        SqlLine(<<"SELECT", "2", ";">>)>>,
      <<TimeLine(<<>>), QueryTimeLine(<<"1.5">> \o Rows1),
        SetTimestampLine(<<"1705314600">>),
        SqlLine(<<"UPDATE", "t", "SET", "a", "=", "1">>)>>,
      <<TimeLine(<<"2024-01-15T10:30:00Z">>), QueryTimeLine(<<"0.5">> \o Rows1),
        SqlLine(<<"SELECT", "/*!40001 SQL_NO_CACHE */", "1", ";">>)>>,
      <<TimeLine(<<"2024-01-15T10:30:00Z">>), SqlLine(Select1)>>,
      <<TimeLine(<<"2024-01-15T10:30:00Z">>), QueryTimeLine(<<"0.5">> \o Rows1),
        SqlLine(Select1)>>,
      <<TimeLine(<<"2024-01-16T10:30:00Z">>), QueryTimeLine(<<"1.5">> \o Rows1),
        SetTimestampLine(<<"1705401000">>), SqlLine(Select1)>> }

\* the time window of the record-wise runs
Window == <<1705314600, 1705400000>>

Perms(n) == {p \in [1..n -> 1..n] : \A i, j \in 1..n : p[i] = p[j] => i = j}

Identity(n) == [i \in 1..n |-> i]

-----------------------------------------------------------------------------
(* The run: main's scan, parse and merge phases *)

Idle ==
    /\ shards = <<>> /\ record_starts = 0 /\ text = <<>> /\ chunk = NewChunk
    /\ pos = 0 /\ parts = <<>> /\ merged = <<>> /\ stats_total = EmptyStats
    /\ nmerged = 0 /\ order = <<>> /\ raised = None
    /\ sample_result = <<>> /\ df = <<>> /\ emitted = FALSE
    /\ sql_in = <<>> /\ sql_out = <<>>
    /\ pool = <<>> /\ results = <<>>

Init ==
    /\ file \in Files
    /\ eol \in (IF file # <<>> /\ Len(file) <= MaxNoEolLines THEN BOOLEAN ELSE {TRUE})
    /\ loose_start \in BOOLEAN
    /\ max_parts \in 1..MaxParts
    /\ min_time = 0
    /\ exclude_dumps = FALSE
    /\ mark_truncated \in BOOLEAN
    /\ time_range = <<>>
    /\ pc = "scan"
    /\ Idle

\* compute_boundaries: mmap raises ValueError on an empty file
ComputeBoundaries ==
    /\ pc = "scan"
    /\ IF FileSize(file, eol) = 0
       THEN /\ raised' = "ValueError"
            /\ pc' = "failed"
            /\ UNCHANGED <<shards, record_starts>>
       ELSE /\ shards' = ShardList(file, eol, max_parts, loose_start)
            /\ record_starts' = Cardinality(RecordStarts(file, eol, loose_start))
            /\ pc' = "read"
            /\ UNCHANGED raised
    /\ UNCHANGED <<report, config, text, chunk, pos, parts, merged, stats_total, nmerged,
                   order>>

\* the head of parse_chunk, as pool.map calls it on the next shard: the
\* bytes of the shard are read and split into lines, the locals initialised
ReadShard ==
    /\ pc = "read"
    /\ text' = ShardLines(file, eol, shards[Len(parts) + 1][1],
                          shards[Len(parts) + 1][2])
    /\ chunk' = NewChunk
    /\ pos' = 0
    /\ pc' = "parse"
    /\ UNCHANGED <<report, config, shards, record_starts, parts, merged, stats_total,
                   nmerged, order, raised>>

\* the line loop is at a line of kind k
AtLine(k) == pc = "parse" /\ pos < Len(text) /\ text[pos + 1].k = k

\* the loop goes on with locals c, or the exception c.raised ends the run
Advance(c) ==
    /\ chunk' = c
    /\ pos' = pos + 1
    /\ raised' = c.raised
    /\ pc' = IF c.raised # None THEN "failed" ELSE pc
    /\ UNCHANGED <<report, config, shards, record_starts, text, parts, merged,
                   stats_total, nmerged, order>>

OnTime ==
    /\ AtLine("time")
    /\ Advance(TimeHeader(chunk, text[pos + 1]))

OnQueryTime ==
    /\ AtLine("qtime")
    /\ Advance(QueryTimeHeader(chunk, text[pos + 1]))

OnUse ==
    /\ AtLine("use")
    /\ Advance(UseStatement(chunk, text[pos + 1]))

OnSetTimestamp ==
    /\ AtLine("setts")
    /\ Advance(SetTimestamp(chunk, text[pos + 1]))

OnComment ==
    /\ AtLine("hash")
    /\ Advance(chunk)

OnBlank ==
    /\ AtLine("blank")
    /\ Advance(chunk)

OnSql ==
    /\ AtLine("sql")
    /\ Advance(SqlText(chunk, text[pos + 1]))

\* the end of parse_chunk: the tail flush and the return; main calls
\* merge_results on pool.map's list, which is in shard order
Return ==
    /\ pc = "parse"
    /\ pos = Len(text)
    /\ LET c == TailFlush(chunk)
       IN  /\ chunk' = c
           /\ parts' = Append(parts, [result |-> c.result, stats |-> c.stats])
    /\ IF Len(parts) + 1 = Len(shards)
       THEN pc' = "merge" /\ order' = Identity(Len(shards))
       ELSE pc' = "read" /\ UNCHANGED order
    /\ UNCHANGED <<report, config, shards, record_starts, text, pos, merged, stats_total,
                   nmerged, raised>>

\* one round of merge_results' loop over parts
MergePart ==
    /\ pc = "merge"
    /\ nmerged < Len(parts)
    /\ LET m == MergeOne([agg |-> merged, stats |-> stats_total],
                         parts[order[nmerged + 1]])
       IN  merged' = m.agg /\ stats_total' = m.stats
    /\ nmerged' = nmerged + 1
    /\ pc' = IF nmerged + 1 = Len(parts) THEN "done" ELSE pc
    /\ UNCHANGED <<report, config, shards, record_starts, text, chunk, pos, parts, order,
                   raised>>

Next ==
    \/ ComputeBoundaries
    \/ ReadShard
    \/ OnTime \/ OnQueryTime \/ OnUse \/ OnSetTimestamp \/ OnComment
    \/ OnBlank \/ OnSql
    \/ Return
    \/ MergePart

Spec == Init /\ [][Next]_vars

-----------------------------------------------------------------------------
(* Record-wise runs: shards that hold whole records, cut at "# Time:" lines  *)
(* as compute_boundaries cuts them, parsed with every filter of add_entry    *)
(* switched on, and merged in any order.                                     *)

RecordInit ==
    /\ file = <<>>
    /\ eol = TRUE
    /\ loose_start = FALSE
    /\ max_parts \in 2..MaxParts
    /\ min_time = 10
    /\ exclude_dumps = TRUE
    /\ mark_truncated = TRUE
    /\ time_range = Window
    /\ pc = "parse"
    /\ Idle

RECURSIVE Steps(_, _)
\* the line loop over the lines ls, without the tail flush
Steps(c, ls) == IF ls = <<>> THEN c ELSE Steps(LineStep(c, Head(ls)), Tail(ls))

\* the line loop consumes the lines of the shard's next record; its
\* "# Time:" line flushes the record before it
ParseRecordFrom(records) ==
    /\ pc = "parse"
    /\ Len(parts) < max_parts
    /\ record_starts < MaxRecords
    /\ \E r \in records :
          /\ file' = file \o r
          /\ text' = text \o r
          /\ chunk' = Steps(chunk, r)
          /\ pos' = pos + Len(r)
    /\ record_starts' = record_starts + 1
    /\ UNCHANGED <<report, eol, loose_start, max_parts, min_time, exclude_dumps,
                   mark_truncated, time_range, pc, shards, parts, merged,
                   stats_total, nmerged, order, raised>>

\* the shard ends: the tail flush and the return of parse_chunk; after the
\* last shard merge_results is handed the parts in some order
EndShard ==
    /\ pc = "parse"
    /\ Len(parts) < max_parts
    /\ LET c == TailFlush(chunk)
       IN  parts' = Append(parts, [result |-> c.result, stats |-> c.stats])
    /\ chunk' = NewChunk
    /\ text' = <<>>
    /\ pos' = 0
    /\ shards' = Append(shards, <<FileSize(file, eol) - FileSize(text, eol),
                                   FileSize(file, eol)>>)
    /\ IF Len(parts) + 1 = max_parts
       THEN pc' = "merge" /\ order' \in Perms(max_parts)
       ELSE UNCHANGED <<pc, order>>
    /\ UNCHANGED <<report, config, record_starts, merged, stats_total, nmerged, raised>>

ParseRecord == ParseRecordFrom(Records)

RecordNext ==
    \/ ParseRecord
    \/ EndShard
    \/ MergePart

RecordSpec == RecordInit /\ [][RecordNext]_vars

-----------------------------------------------------------------------------
(* One parse_chunk over a whole log, record by record *)

\* the records of the log: with and without a "use" and a "# User@Host:"
\* line, without a "# Query_time:" line, a dump statement without one, one
\* outside the window and one below min_time
ChunkRecords ==
    { <<TimeLine(<<"2024-01-15T10:30:00Z">>), QueryTimeLine(<<"1.5">> \o Rows1),
        SqlLine(Select1)>>,
      <<TimeLine(<<"240115 10:30:00">>), CommentLine(<<"User@Host:", "root">>),
        UseLine(<<"a">>), QueryTimeLine(<<"3.0">>),
        SetTimestampLine(<<"1705314600">>), SqlLine(<<"SELECT", "2", ";">>)>>,
      <<TimeLine(<<"2024-01-15T10:30:00Z">>), SqlLine(Select1)>>,
      <<TimeLine(<<"2024-01-15T10:30:00Z">>),
        SqlLine(<<"SELECT", "/*!40001 SQL_NO_CACHE */", "1", ";">>)>>,
      <<TimeLine(<<"2024-01-16T10:30:00Z">>), QueryTimeLine(<<"1.5">> \o Rows1),
        SetTimestampLine(<<"1705401000">>), SqlLine(Select1)>>,
      <<TimeLine(<<"2024-01-15T10:30:00Z">>), QueryTimeLine(<<"0.5">> \o Rows1),
        SqlLine(Select1)>> }

ChunkInit ==
    /\ file = <<>>
    /\ eol = TRUE
    /\ loose_start = FALSE
    /\ max_parts = 1
    /\ min_time = 10
    /\ exclude_dumps = TRUE
    /\ mark_truncated \in BOOLEAN
    /\ time_range \in {<<>>, Window}
    /\ pc = "parse"
    /\ Idle

ParseChunkRecord == ParseRecordFrom(ChunkRecords)

ChunkNext ==
    \/ ParseChunkRecord
    \/ EndShard
    \/ MergePart

ChunkSpec == ChunkInit /\ [][ChunkNext]_vars

-----------------------------------------------------------------------------
(* One parse_chunk with a time range, over records with every time source *)

\* records that pass the dump, query_time and min_time checks, with their
\* time, SET timestamp, Start and End inside the window, outside it, absent
\* or unparseable; and one below min_time outside the window
RangeRecords ==
    { <<TimeLine(<<"2024-01-15T10:30:00Z">>), QueryTimeLine(<<"1.5">>),
        SqlLine(Select1)>>,
      <<TimeLine(<<"2024-01-15T10:30:00Z">>), QueryTimeLine(<<"1.5">>),
        SetTimestampLine(<<"1705401000">>), SqlLine(Select1)>>,
      <<TimeLine(<<"2024-01-16T10:30:00Z">>), QueryTimeLine(<<"1.5">>),
        SetTimestampLine(<<"1705314600">>), SqlLine(Select1)>>,
      <<TimeLine(<<"2024-01-16T10:30:00Z">>),
        QueryTimeLine(<<"1.5", "Start:", "1705314600">>), SqlLine(Select1)>>,
      <<TimeLine(<<"garbage">>),
        QueryTimeLine(<<"1.5", "Start:", "garbage", "End:",
                        "2024-01-15T10:30:00Z">>),
        SqlLine(Select1)>>,
      <<TimeLine(<<>>),
        QueryTimeLine(<<"1.5", "Start:", "garbage", "End:", "1705401000">>),
        SqlLine(Select1)>>,
      <<TimeLine(<<"2024-01-16T10:30:00Z">>),
        QueryTimeLine(<<"1.5", "Start:", "2024-01-16T10:30:00Z">>),
        SetTimestampLine(<<"1705401000">>), SqlLine(Select1)>>,
      <<TimeLine(<<"2024-01-16T10:30:00Z">>), QueryTimeLine(<<"0.5">>),
        SqlLine(Select1)>> }

RangeInit ==
    /\ file = <<>>
    /\ eol = TRUE
    /\ loose_start = FALSE
    /\ max_parts = 1
    /\ min_time = 10
    /\ exclude_dumps \in BOOLEAN
    /\ mark_truncated = FALSE
    /\ time_range = Window
    /\ pc = "parse"
    /\ Idle

ParseRangeRecord == ParseRecordFrom(RangeRecords)

RangeNext ==
    \/ ParseRangeRecord
    \/ EndShard
    \/ MergePart

RangeSpec == RangeInit /\ [][RangeNext]_vars

-----------------------------------------------------------------------------
(* build_dataframe *)

\* the row of a group; the columns computed from the others (averages,
\* percentile, shares) are left out
FrameRow(g) ==
    [fingerprint |-> g.fingerprint, samples |-> g.samples,
     total_time_s |-> g.total_time_s, max_time_s |-> g.max_time_s,
     rows_examined_total |-> g.rows_examined_total,
     rows_sent_total |-> g.rows_sent_total,
     first_seen |-> g.first_seen, last_seen |-> g.last_seen,
     example_query |-> g.example_query, norm_sql |-> g.norm_sql,
     db |-> g.db, user_host |-> g.user_host, main_table |-> g.main_table,
     has_truncated |-> g.has_truncated]

\* row a sorts before row b under
\* sort_values(["total_time_s","samples"], ascending=[False, False])
SortsBefore(a, b) ==
    \/ a.total_time_s > b.total_time_s
    \/ a.total_time_s = b.total_time_s /\ a.samples > b.samples

RECURSIVE InsertRow(_, _)
\* r inserted into the sorted rows behind every row it does not sort before:
\* the sort over two columns is a stable lexsort, rows with equal keys keep
\* the order they had
InsertRow(rows, r) ==
    IF rows = <<>> THEN <<r>>
    ELSE IF SortsBefore(r, rows[Len(rows)])
         THEN Append(InsertRow(SubSeq(rows, 1, Len(rows) - 1), r), rows[Len(rows)])
         ELSE Append(rows, r)

RECURSIVE SortRows(_)
SortRows(rows) ==
    IF rows = <<>> THEN <<>>
    ELSE InsertRow(SortRows(SubSeq(rows, 1, Len(rows) - 1)), rows[Len(rows)])

build_dataframe(agg) == SortRows([i \in 1..Len(agg) |-> FrameRow(agg[i])])

\* the place of fingerprint(sql), the hexdigest of the MD5 of the normalised
\* text, in string order: md5("select ?") = 1fe1379fe2a31b8d16219655761820a2,
\* md5("update t set a = ?") = 23e210dd6d0e5c73e038afb2b08ba1e6
DigestRank(fp) ==
    CASE fp = <<"select", "?">> -> 1
      [] fp = <<"update", "t", "set", "a", "=", "?">> -> 2
      [] OTHER -> 0

-----------------------------------------------------------------------------
(* main: the sampler pre-check, the scan, the pool of shard parsers, the     *)
(* merge, the frame and the CSV                                              *)

\* the lines of the files of the runs of main
MainLines ==
    { TimeLine(<<"2024-01-15T10:30:00Z">>),
      TimeLine(<<"2024-01-16T10:30:00Z">>),
      QueryTimeLine(<<"1.5">> \o Rows1),
      QueryTimeLine(<<"1.5", "Start:", "1705314600">>),
      SqlLine(Select1) }

\* longest file of a run of main, in lines
MaxMainLines == 4

MainInit ==
    /\ file \in SeqsUpTo(MainLines, MaxMainLines)
    /\ eol = TRUE
    /\ loose_start \in BOOLEAN
    /\ max_parts \in 1..MaxParts
    /\ min_time = 0
    /\ exclude_dumps = FALSE
    /\ mark_truncated = FALSE
    /\ time_range \in {<<>>, Window}
    /\ pc = "start"
    /\ Idle

\* a variant of the pre-check that goes on to the scan whatever the verdict
SamplerCheckIgnoresVerdict ==
    /\ pc = "start"
    /\ IF time_range # <<>>
       THEN sample_result' = <<smart_time_range_check(file, eol, time_range)>>
       ELSE UNCHANGED sample_result
    /\ pc' = "scan"
    /\ UNCHANGED <<config, shards, record_starts, text, chunk, pos, parts, merged,
                   stats_total, nmerged, order, raised, df, emitted, sql_in,
                   sql_out, pool, results>>

\* "if time_range:" the sampler is called, and main returns when its verdict
\* is that the range holds no data
SamplerCheck ==
    /\ pc = "start"
    /\ IF time_range # <<>>
       THEN LET r == smart_time_range_check(file, eol, time_range)
            IN  /\ sample_result' = <<r>>
                /\ pc' = IF r.has_data_in_range THEN "scan" ELSE "no_data"
       ELSE /\ pc' = "scan"
            /\ UNCHANGED sample_result
    /\ UNCHANGED <<config, shards, record_starts, text, chunk, pos, parts, merged,
                   stats_total, nmerged, order, raised, df, emitted, sql_in,
                   sql_out, pool, results>>

\* pool.map(parse_chunk, job_args): every shard is parsed; an exception of a
\* worker is raised in main
ParseShards ==
    /\ pc = "read"
    /\ LET rs == [i \in 1..Len(shards) |->
                     parse_chunk(file, eol, shards[i][1], shards[i][2])]
       IN  IF \E i \in 1..Len(rs) : rs[i].raised # None
           THEN /\ raised' = "ValueError"
                /\ pc' = "failed"
                /\ UNCHANGED <<parts, order>>
           ELSE /\ parts' = [i \in 1..Len(rs) |->
                                [result |-> rs[i].result, stats |-> rs[i].stats]]
                /\ order' = Identity(Len(rs))
                /\ pc' = "merge"
                /\ UNCHANGED raised
    /\ UNCHANGED <<report, config, shards, record_starts, text, chunk, pos,
                   merged, stats_total, nmerged>>

\* main returns when the merged map is empty, else it builds the frame
BuildDataframe ==
    /\ pc = "done"
    /\ IF merged = <<>>
       THEN pc' = "empty" /\ UNCHANGED df
       ELSE pc' = "built" /\ df' = build_dataframe(merged)
    /\ UNCHANGED <<config, shards, record_starts, text, chunk, pos, parts, merged,
                   stats_total, nmerged, order, raised, sample_result, emitted,
                   sql_in, sql_out, pool, results>>

\* rename_columns and to_csv
WriteCsv ==
    /\ pc = "built"
    /\ emitted' = TRUE
    /\ pc' = "written"
    /\ UNCHANGED <<config, shards, record_starts, text, chunk, pos, parts, merged,
                   stats_total, nmerged, order, raised, sample_result, df,
                   sql_in, sql_out, pool, results>>

\* the record-wise runs, carried on to the frame and the CSV
FrameNext ==
    \/ ParseRecord
    \/ EndShard
    \/ MergePart
    \/ BuildDataframe
    \/ WriteCsv

FrameSpec == RecordInit /\ [][FrameNext]_vars

MainNext ==
    \/ SamplerCheck
    \/ ComputeBoundaries
    \/ ParseShards
    \/ MergePart
    \/ BuildDataframe
    \/ WriteCsv

MainSpec == MainInit /\ [][MainNext]_vars

\* the positions of main
Positions ==
    {"start", "scan", "no_data", "read", "failed", "merge", "done", "empty",
     "built", "written"}

\* where main is: its position and the number of parts it has merged
control == <<pc, nmerged>>

\* main executes its next statement: every step of MainNext changes control,
\* and main has a step to take at every position but the final ones
Proceeds ==
    /\ pc \in {"start", "scan", "read", "merge", "done", "built"}
    /\ pc' \in Positions
    /\ nmerged' \in {nmerged, nmerged + 1}

\* main is a sequential program: it takes its next step as long as it has one
MainLive == MainSpec /\ WF_control(Proceeds)

-----------------------------------------------------------------------------
(* pool.map(parse_chunk, job_args) task by task: a pool of                   *)
(* min(args.jobs, len(job_args)) workers takes the tasks, one per shard, in  *)
(* the order of the shard list; the workers finish in any order; an outcome  *)
(* is stored at the index of its task; map returns the list, or raises the   *)
(* exception of a task, once every task has finished.                        *)

MaxPoolLines == 4

\* the lines of the logs of the pool runs; float() raises on the second
\* "# Query_time:" line
PoolLines ==
    { TimeLine(<<"2024-01-15T10:30:00Z">>),
      QueryTimeLine(<<"1.5">> \o Rows1),
      QueryTimeLine(<<"1.2.3">>),
      SqlLine(Select1) }

PoolInit ==
    /\ file \in SeqsUpTo(PoolLines, MaxPoolLines)
    /\ eol = TRUE
    /\ loose_start \in BOOLEAN
    /\ max_parts \in 1..MaxParts
    /\ min_time = 0 /\ exclude_dumps = FALSE /\ mark_truncated = FALSE
    /\ time_range = <<>>
    /\ pc = "scan"
    /\ Idle

\* Pool(processes=min(args.jobs, len(job_args))) and the submission of one
\* task per shard
StartPool ==
    /\ pc = "read"
    /\ pool' = [busy  |-> [w \in 1..Min2(max_parts, Len(shards)) |-> 0],
                taken |-> 0,
                runs  |-> [i \in 1..Len(shards) |-> 0],
                state |-> [i \in 1..Len(shards) |-> "queued"]]
    /\ results' = [i \in 1..Len(shards) |-> <<>>]
    /\ pc' = "map"
    /\ UNCHANGED <<sample_result, df, emitted, sql_in, sql_out, config, shards,
                   record_starts, text, chunk, pos, parts, merged, stats_total,
                   nmerged, order, raised>>

\* the idle worker w takes the next task of the queue
Takes(w) ==
    /\ w \in DOMAIN pool.busy
    /\ pool.busy[w] = 0
    /\ pool.taken < Len(pool.state)
    /\ pool' = [pool EXCEPT !.busy[w] = pool.taken + 1,
                            !.taken = @ + 1,
                            !.runs[pool.taken + 1] = @ + 1,
                            !.state[pool.taken + 1] = "running"]

\* the worker w ends its task, to the state to
Ends(w, to) ==
    /\ w \in DOMAIN pool.busy
    /\ pool.busy[w] # 0
    /\ pool' = [pool EXCEPT !.busy[w] = 0, !.state[pool.busy[w]] = to]

\* every task has finished
AllFinished ==
    \A i \in 1..Len(pool.state) : pool.state[i] \in {"returned", "raised"}

TakeTask(w) ==
    /\ pc = "map"
    /\ Takes(w)
    /\ UNCHANGED <<sample_result, df, emitted, sql_in, sql_out, results, config,
                   shards, record_starts, text, chunk, pos, parts, merged,
                   stats_total, nmerged, order, raised, pc>>

\* a worker finishes its task: parse_chunk returns or raises, and the
\* outcome is stored at the index of the task
FinishTask(w) ==
    /\ pc = "map"
    /\ w \in DOMAIN pool.busy
    /\ pool.busy[w] # 0
    /\ LET i == pool.busy[w]
           r == parse_chunk(file, eol, shards[i][1], shards[i][2])
       IN  /\ results' = [results EXCEPT ![i] = <<r>>]
           /\ Ends(w, IF r.raised # None THEN "raised" ELSE "returned")
    /\ UNCHANGED <<sample_result, df, emitted, sql_in, sql_out, config, shards,
                   record_starts, text, chunk, pos, parts, merged, stats_total,
                   nmerged, order, raised, pc>>

\* every task has finished: map raises the exception of a task in main, or
\* returns the results in the order of the tasks and main calls
\* merge_results on them
MapReturns ==
    /\ pc = "map"
    /\ AllFinished
    /\ IF \E i \in 1..Len(shards) : pool.state[i] = "raised"
       THEN /\ raised' = "ValueError"
            /\ pc' = "failed"
            /\ UNCHANGED <<parts, order>>
       ELSE /\ parts' = [i \in 1..Len(shards) |->
                            [result |-> results[i][1].result,
                             stats  |-> results[i][1].stats]]
            /\ order' = Identity(Len(shards))
            /\ pc' = "merge"
            /\ UNCHANGED raised
    /\ UNCHANGED <<report, config, shards, record_starts, text, chunk, pos,
                   merged, stats_total, nmerged>>

PoolNext ==
    \/ ComputeBoundaries
    \/ StartPool
    \/ \E w \in 1..MaxParts : TakeTask(w)
    \/ \E w \in 1..MaxParts : FinishTask(w)
    \/ MapReturns
    \/ MergePart

PoolSpec == PoolInit /\ [][PoolNext]_vars

\* what a step of the pool does to the position of main and to the pool's
\* bookkeeping
PoolProceeds ==
    /\ pc = "map"
    /\ \/ pc' = pc /\ \E w \in 1..MaxParts : Takes(w)
       \/ pc' = pc /\ \E w \in 1..MaxParts :
                         \E to \in {"returned", "raised"} : Ends(w, to)
       \/ AllFinished /\ pc' \in {"merge", "failed"} /\ pool' = pool

\* the workers and the thread that collects their outcomes are processes of
\* their own: while map is in progress one of them goes on
PoolLive == PoolSpec /\ WF_<<pc, pool>>(PoolProceeds)

-----------------------------------------------------------------------------
(* Vocabulary of the properties *)

Groups(map) == {map[i] : i \in 1..Len(map)}

Fingerprints(map) == {g.fingerprint : g \in Groups(map)}

GroupOf(map, fp) == map[FindGroup(map, fp)]

Count(s, v) == Cardinality({i \in 1..Len(s) : s[i] = v})

\* the same values with the same multiplicities
SameBag(s, t) ==
    /\ Len(s) = Len(t)
    /\ \A i \in 1..Len(s) : Count(s, s[i]) = Count(t, s[i])

EndsWith(s, t) == s # <<>> /\ s[Len(s)] = t

TotalSamples(map) == SumSeq([i \in 1..Len(map) |-> map[i].samples])

Size == FileSize(file, eol)

\* the file has been scanned and cut into shards
Scanned == pc \in {"read", "parse", "merge", "done"}

\* the run parsed the file as one shard that spans it
ParsedWhole == pc = "done" /\ shards = <<(<<0, Size>>)>>

\* parse_chunk on the whole range (0, size)
Whole == parse_chunk(file, eol, 0, Size)

KindAt(offset) ==
    LET at == {i \in 1..Len(file) : Offset(file, eol, i) = offset}
    IN  IF at = {} THEN "none" ELSE file[CHOOSE i \in at : TRUE].k

\* the file begins with a record that has no "# Time:" line: a
\* "# Query_time:" line with a value, then SQL
HeaderlessFirst ==
    /\ Len(file) >= 2
    /\ file[1].k = "qtime" /\ file[1].v # <<>> /\ FloatTenths(file[1].v[1]) # NoNum
    /\ file[2].k = "sql"

\* the file is a sequence of complete records: each begins with "# Time:",
\* ends with SQL lines that a ";" and a line end terminate, and nothing
\* follows the SQL of a record but the next record
CompleteLog ==
    /\ file # <<>> /\ eol
    /\ file[1].k = "time"
    /\ file[Len(file)].k = "sql"
    /\ \A i \in 1..Len(file) :
          /\ file[i].k = "sql" => EndsWith(file[i].v, ";")
          /\ (file[i].k = "sql" /\ i < Len(file)) => file[i + 1].k \in {"sql", "time"}
          /\ (file[i].k = "time" /\ i > 1) => file[i - 1].k = "sql"

-----------------------------------------------------------------------------
(* Properties of the whole run *)

\* the aggregates the shard-independence property compares
SameAggregates(m1, m2) ==
    /\ Fingerprints(m1) = Fingerprints(m2)
    /\ \A fp \in Fingerprints(m1) :
          LET a == GroupOf(m1, fp)
              b == GroupOf(m2, fp)
          IN  /\ a.samples = b.samples
              /\ SameBag(a.durations, b.durations)
              /\ a.total_time_s = b.total_time_s
              /\ a.max_time_s = b.max_time_s
              /\ a.rows_examined_total = b.rows_examined_total
              /\ a.rows_sent_total = b.rows_sent_total
              /\ a.first_seen = b.first_seen
              /\ a.last_seen = b.last_seen
              /\ a.db = b.db
              /\ a.example_query = b.example_query
              /\ a.has_truncated = b.has_truncated

\* C1: parsing the shards of compute_boundaries and merging them yields the
\* same per-fingerprint aggregates as one parse_chunk over (0, file size)
ShardIndependence ==
    (pc = "done" /\ Whole.raised = None) => SameAggregates(merged, Whole.result)

\* C4, first part: every byte of the file lies in exactly one shard
EveryByteInOneShard ==
    \A b \in 0..(Size - 1) :
        Cardinality({i \in 1..Len(shards) :
                        shards[i][1] <= b /\ b < shards[i][2]}) = 1

\* the parser, having read the lines before line i, holds no part of a
\* record, or line i is where it flushes the record it holds
RecordBoundaryAt(i) ==
    LET c == Steps(NewChunk, SubSeq(file, 1, i - 1))
    IN  \/ c.current = EmptyCurrent /\ c.sql_buf = <<>>
        \/ c.sql_buf # <<>> /\ LineStep(c, file[i]).sql_buf = <<>>

\* C4, second part: no shard boundary falls inside a record as the shard
\* parser frames records
NoBoundaryInsideRecord ==
    \A i \in 2..Len(file) :
        (\E k \in 2..Len(shards) : shards[k][1] = Offset(file, eol, i))
            => RecordBoundaryAt(i)

\* C4, third part: every shard begins at a record start, unless it is the
\* single whole-file fallback shard
ShardsBeginAtRecordStarts ==
    \/ shards = <<(<<0, Size>>)>>
    \/ \A k \in 1..Len(shards) :
          KindAt(shards[k][1]) \in (IF loose_start THEN {"time", "qtime"} ELSE {"time"})

\* C4: the shard list of compute_boundaries partitions the file at record
\* boundaries
ShardsPartitionFile ==
    Scanned
        => /\ EveryByteInOneShard
           /\ NoBoundaryInsideRecord
           /\ ShardsBeginAtRecordStarts

\* C6: the scanner, the shard parser and the merger never end with an
\* exception, whatever the content of the file
NeverRaises == raised = None /\ pc # "failed"

\* C7: a log of complete records, parsed as a whole, yields no group with
\* has_truncated set
CompleteRecordsNotTruncated ==
    (ParsedWhole /\ CompleteLog) => \A g \in Groups(merged) : ~g.has_truncated

\* C8: an input that ends in SQL is counted as one truncated record and,
\* with mark_truncated, the group of that record carries the marker at the
\* end of its example_query and of its norm_sql
TruncatedIsMarked ==
    (ParsedWhole /\ mark_truncated /\ file[Len(file)].k = "sql")
        => /\ stats_total.truncated_records = 1
           /\ \A g \in Groups(merged) :
                 g.has_truncated
                    => /\ EndsWith(g.example_query, "/* TRUNCATED */")
                       /\ EndsWith(g.norm_sql, "/* truncated */")

\* C9: in loose mode a first record without "# Time:" is a record start at
\* offset 0 and yields a sample with the query_time of its own line
LooseStartKeepsFirstRecord ==
    (pc = "done" /\ loose_start /\ HeaderlessFirst)
        => /\ shards[1][1] = 0
           /\ \E g \in Groups(merged) :
                 \E i \in 1..Len(g.durations) :
                     g.durations[i] = FloatTenths(file[1].v[1])

\* C10: in strict mode a first record without "# Time:" adds no sample:
\* every sample belongs to a record that a "# Time:" line begins
StrictDropsHeaderlessFirst ==
    (pc = "done" /\ ~loose_start /\ HeaderlessFirst)
        => TotalSamples(merged) <= Cardinality({i \in 1..Len(file) : file[i].k = "time"})

-----------------------------------------------------------------------------
(* Properties of the record-wise runs *)

\* merge_results on the parts in shard order
InShardOrder == merge_results(parts)

\* the parts were merged in an order that is not the shard order, and a
\* fingerprint lies in both parts
MergedOutOfOrder ==
    /\ pc = "done"
    /\ order # Identity(Len(parts))
    /\ Fingerprints(parts[1].result) \cap Fingerprints(parts[2].result) # {}

\* C2, as stated: merging the parts in any order yields the same map, every
\* field of every group, and the same summed stats
MergeOrderIndependent ==
    pc = "done"
        => /\ Groups(merged) = Groups(InShardOrder.agg)
           /\ stats_total = InShardOrder.stats

\* C2, amended: merging the parts in any order yields the same fingerprints,
\* for each group the same samples, totals, maximum, first_seen, last_seen,
\* has_truncated, norm_sql and multiset of durations, and the same summed
\* stats
MergeOrderIndependentAggregates ==
    pc = "done"
        => /\ Fingerprints(merged) = Fingerprints(InShardOrder.agg)
           /\ \A fp \in Fingerprints(merged) :
                 LET a == GroupOf(merged, fp)
                     b == GroupOf(InShardOrder.agg, fp)
                 IN  /\ a.samples = b.samples
                     /\ a.total_time_s = b.total_time_s
                     /\ a.max_time_s = b.max_time_s
                     /\ a.sum_lock_time_s = b.sum_lock_time_s
                     /\ a.rows_examined_total = b.rows_examined_total
                     /\ a.rows_sent_total = b.rows_sent_total
                     /\ a.first_seen = b.first_seen
                     /\ a.last_seen = b.last_seen
                     /\ a.has_truncated = b.has_truncated
                     /\ a.norm_sql = b.norm_sql
                     /\ SameBag(a.durations, b.durations)
           /\ stats_total = InShardOrder.stats

\* two parts that share a fingerprint and differ in first_seen and in db
\* have been merged against the shard order
MergedSharedGroupOutOfOrder ==
    /\ MergedOutOfOrder
    /\ \E fp \in Fingerprints(parts[1].result) \cap Fingerprints(parts[2].result) :
          /\ GroupOf(parts[1].result, fp).db # GroupOf(parts[2].result, fp).db
          /\ GroupOf(parts[1].result, fp).first_seen
                # GroupOf(parts[2].result, fp).first_seen

\* the maps of the run: the map of the shard being parsed, the maps the
\* shards returned, and the merged map
Maps == {chunk.result, merged} \cup {parts[i].result : i \in 1..Len(parts)}

Pending == Row(chunk.current, chunk.last_db, Strip(Join(chunk.sql_buf)))

LooksLikeDump(sql) ==
    /\ \E i \in 1..Len(sql) : ContainsSqlNoCache(sql[i])
    /\ \E i \in 1..Len(sql) : ContainsHintOpen(sql[i])

\* the counter of the first check that rejects the entry, in the order dump
\* detection, query_time presence, min_time, time range; "none" when no
\* counted check rejects it
RejectedBy(entry) ==
    IF exclude_dumps /\ LooksLikeDump(entry.sql) THEN "filtered_dumps"
    ELSE IF entry.query_time = NoNum THEN "none"
    ELSE IF entry.query_time < min_time THEN "filtered_min_time"
    ELSE IF time_range # <<>> /\ ~TimeInRange(entry) THEN "filtered_time_range"
    ELSE "none"

FilterCounters == {"filtered_dumps", "filtered_min_time", "filtered_time_range"}

\* C5: a flush whose entry add_entry rejects for dump detection, min_time or
\* the time range leaves the shard's map unchanged and adds one to the
\* counter of the first failing check, and to no other filter counter
RejectionCountedOnce ==
    [][ (pc = "parse" /\ chunk.sql_buf # <<>> /\ RejectedBy(Pending) \in FilterCounters)
          => LET after == IF Len(parts') > Len(parts)
                          THEN parts'[Len(parts')] ELSE chunk'
             IN  /\ after.result = chunk.result
                 /\ \A k \in FilterCounters :
                       after.stats[k] = chunk.stats[k]
                          + (IF k = RejectedBy(Pending) THEN 1 ELSE 0) ]_vars

\* a shard has rejected a dump below min_time, a query below min_time and a
\* query outside the time range, and returned an empty map with each
\* counter at one
EachFilterCountedOnce ==
    \E i \in 1..Len(parts) :
        /\ parts[i].result = <<>>
        /\ parts[i].stats.parsed_records = 3
        /\ \A k \in FilterCounters : parts[i].stats[k] = 1

-----------------------------------------------------------------------------
(* Calls of compute_boundaries *)

\* the lines of the scanned files
ScanLines ==
    { TimeLine(<<"2024-01-15T10:30:00Z">>),
      QueryTimeLine(<<"1.5">>),
      SqlLine(Select1) }

MaxScanLines == 6

ScanInit ==
    /\ file \in SeqsUpTo(ScanLines, MaxScanLines)
    /\ eol = TRUE
    /\ loose_start \in BOOLEAN
    /\ max_parts \in 1..MaxParts
    /\ min_time = 0 /\ exclude_dumps = FALSE /\ mark_truncated = FALSE
    /\ time_range = <<>>
    /\ pc = "scan"
    /\ Idle

ScanNext == ComputeBoundaries

ScanSpec == ScanInit /\ [][ScanNext]_vars

\* the sorted record starts of the file
SortedStarts == SortSet(RecordStarts(file, eol, loose_start))

\* j is i * n / k rounded to a nearest integer
Rounds(j, i, n, k) ==
    2 * (j * k - i * n) <= k /\ 2 * (i * n - j * k) <= k

\* C15: compute_boundaries returns, and with N >= 1 record starts it returns
\* min(max_parts, N) contiguous non-empty shards that begin at the sorted
\* starts of index round(i * N / K) and end at the file size; with no record
\* start it returns the single shard (0, size) and the count 0
ShardFormation ==
    pc # "scan" =>
        LET N == Len(SortedStarts)
            K == Min2(max_parts, N)
        IN  /\ raised = None
            /\ record_starts = N
            /\ IF N = 0
               THEN shards = <<(<<0, FileSize(file, eol)>>)>>
               ELSE /\ Len(shards) = K
                    /\ \A i \in 1..K :
                          /\ shards[i][1] < shards[i][2]
                          /\ \E j \in 0..(N - 1) :
                                /\ Rounds(j, i - 1, N, K)
                                /\ shards[i][1] = SortedStarts[j + 1]
                    /\ \A i \in 1..(K - 1) : shards[i][2] = shards[i + 1][1]
                    /\ shards[K][2] = FileSize(file, eol)

-----------------------------------------------------------------------------
(* Calls of the normaliser *)

\* the tokens of the statements handed to normalize_sql
SqlTokens ==
    {"SELECT", "x", "1", "'bob'", "IN (1,2,3)", "IN ('(', 1)", "-- c",
     "/* c */", "/*!40001 SQL_NO_CACHE */", "/*!STRAIGHT_JOIN */",
     "/*+ USE_INDEX(t idx) */", NL, ";"}

MaxTokens == 3

NormInit ==
    /\ sql_in \in SeqsUpTo(SqlTokens, MaxTokens)
    /\ sql_out = <<>>
    /\ pc = "sql"
    /\ file = <<>> /\ eol = TRUE /\ loose_start = FALSE /\ max_parts = 1
    /\ min_time = 0 /\ exclude_dumps = FALSE /\ mark_truncated = FALSE
    /\ time_range = <<>>
    /\ shards = <<>> /\ record_starts = 0 /\ text = <<>> /\ chunk = NewChunk
    /\ pos = 0 /\ parts = <<>> /\ merged = <<>> /\ stats_total = EmptyStats
    /\ nmerged = 0 /\ order = <<>> /\ raised = None
    /\ sample_result = <<>> /\ df = <<>> /\ emitted = FALSE
    /\ pool = <<>> /\ results = <<>>

\* norm = normalize_sql(sql)
Normalize ==
    /\ pc = "sql"
    /\ sql_out' = normalize_sql(sql_in)
    /\ pc' = "once"
    /\ UNCHANGED <<config, shards, record_starts, text, chunk, pos, parts, merged,
                   stats_total, nmerged, order, raised, sample_result, df,
                   emitted, sql_in, pool, results>>

\* normalize_sql(norm): the normaliser applied to its own result
NormalizeAgain ==
    /\ pc = "once"
    /\ sql_out' = normalize_sql(sql_out)
    /\ pc' = "twice"
    /\ UNCHANGED <<config, shards, record_starts, text, chunk, pos, parts, merged,
                   stats_total, nmerged, order, raised, sample_result, df,
                   emitted, sql_in, pool, results>>

NormNext ==
    \/ Normalize
    \/ NormalizeAgain

NormSpec == NormInit /\ [][NormNext]_vars

\* C14: the normaliser is idempotent: applied to its own result it returns
\* that result
NormalizeIdempotent == pc = "twice" => sql_out = normalize_sql(sql_in)

-----------------------------------------------------------------------------
(* Properties of the runs of main *)

\* the sampler was called and found no data in the range
NoDataVerdict == sample_result # <<>> /\ ~sample_result[1].has_data_in_range

\* nothing that follows the pre-check in main has run
OnlyPrechecked ==
    /\ shards = <<>> /\ record_starts = 0 /\ parts = <<>>
    /\ merged = <<>> /\ stats_total = EmptyStats /\ nmerged = 0
    /\ df = <<>> /\ ~emitted

\* the boundary scan has run
ScanHasRun == pc \notin {"start", "scan", "no_data"}

\* C11: a run whose sampler finds no data in the range returns from main
\* without an error and without a scan, a parse, a merge, a frame or a CSV,
\* and stays there; a run without a time range never calls the sampler and
\* goes on to the boundary scan
SamplerEarlyExit ==
    /\ [](NoDataVerdict => (pc = "no_data" /\ raised = None /\ OnlyPrechecked))
    /\ [][pc # "no_data"]_vars
    /\ ((pc = "start" /\ time_range # <<>>
            /\ ~smart_time_range_check(file, eol, time_range).has_data_in_range)
          ~> pc = "no_data")
    /\ [](time_range = <<>> => sample_result = <<>>)
    /\ ((pc = "start" /\ time_range = <<>>) ~> ScanHasRun)

\* main has returned on a no-data verdict that rests on sampled moments
ReturnedOnNoData ==
    /\ pc = "no_data"
    /\ NoDataVerdict
    /\ sample_result[1].sample_count >= 1

\* C12: the sampler is only an optimisation: a run stops at the sampler only
\* when the exact filtering of the whole file accepts no record
SamplerIsAdvisory == pc = "no_data" => Whole.result = <<>>

-----------------------------------------------------------------------------
(* Properties of the frame *)

\* C13: the rows of the frame are in descending order of total_time_s, then
\* of samples, and rows that tie on both are in ascending order of
\* fingerprint
RowsOrderedWithFingerprintTieBreak ==
    \A i, j \in 1..Len(df) :
        i < j =>
            \/ SortsBefore(df[i], df[j])
            \/ /\ ~SortsBefore(df[j], df[i])
               /\ DigestRank(df[i].fingerprint) < DigestRank(df[j].fingerprint)

-----------------------------------------------------------------------------
(* Properties of merge_results *)

\* the parts merged so far, in merge order
MergedParts == [k \in 1..nmerged |-> parts[order[k]]]

RECURSIVE ContributingFrom(_, _)
ContributingFrom(ps, fp) ==
    IF ps = <<>> THEN <<>>
    ELSE (IF FindGroup(Head(ps).result, fp) = 0 THEN <<>>
          ELSE <<GroupOf(Head(ps).result, fp)>>)
         \o ContributingFrom(Tail(ps), fp)

\* the local groups of fingerprint fp in the parts merged so far
Contributing(fp) == ContributingFrom(MergedParts, fp)

Column(gs, field) == [k \in 1..Len(gs) |-> gs[k][field]]

RECURSIVE Concat(_)
Concat(ss) == IF ss = <<>> THEN <<>> ELSE Head(ss) \o Concat(Tail(ss))

RECURSIVE FirstNonEmpty(_)
FirstNonEmpty(s) ==
    IF s = <<>> THEN None
    ELSE IF Truthy(Head(s)) THEN Head(s) ELSE FirstNonEmpty(Tail(s))

NonNull(s) == {s[k] : k \in 1..Len(s)} \ {None}

Earliest(S) ==
    IF S = {} THEN None ELSE CHOOSE v \in S : \A w \in S : ~StrLess(w, v)

Latest(S) ==
    IF S = {} THEN None ELSE CHOOSE v \in S : \A w \in S : ~StrLess(v, w)

\* the merged group g is the fold of the spec's merge rules over the local
\* groups of its fingerprint
FoldOfContributing(g) ==
    LET gs == Contributing(g.fingerprint)
    IN  /\ gs # <<>>
        /\ g.samples = SumSeq(Column(gs, "samples"))
        /\ g.total_time_s = SumSeq(Column(gs, "total_time_s"))
        /\ g.sum_lock_time_s = SumSeq(Column(gs, "sum_lock_time_s"))
        /\ g.rows_examined_total = SumSeq(Column(gs, "rows_examined_total"))
        /\ g.rows_sent_total = SumSeq(Column(gs, "rows_sent_total"))
        /\ g.max_time_s = MaxSeq(Column(gs, "max_time_s"))
        /\ g.durations = Concat(Column(gs, "durations"))
        /\ g.first_seen = Earliest(NonNull(Column(gs, "first_seen")))
        /\ g.last_seen = Latest(NonNull(Column(gs, "last_seen")))
        /\ g.has_truncated = (\E k \in 1..Len(gs) : gs[k].has_truncated)
        /\ g.db = FirstNonEmpty(Column(gs, "db"))
        /\ g.user_host = FirstNonEmpty(Column(gs, "user_host"))
        /\ g.main_table = FirstNonEmpty(Column(gs, "main_table"))

\* the merged map and stats are the fold of the parts merged so far
MergedIsFold ==
    pc \in {"merge", "done"} =>
        /\ Fingerprints(merged) =
               UNION {Fingerprints(MergedParts[k].result) : k \in 1..nmerged}
        /\ \A i, j \in 1..Len(merged) :
               merged[i].fingerprint = merged[j].fingerprint => i = j
        /\ \A g \in Groups(merged) : FoldOfContributing(g)
        /\ \A key \in StatKeys :
               stats_total[key] =
                   SumSeq([k \in 1..nmerged |-> MergedParts[k].stats[key]])

\* C16: after every round of the merge, the merged map holds one group for
\* each fingerprint of the parts merged so far, each the fold of the merge
\* rules over the local groups of its fingerprint in merge order, and the
\* merged stats are the field-wise sums; no round of the merge changes a part
\* it was handed
MergeIsReferenceFold ==
    /\ []MergedIsFold
    /\ [][pc = "merge" => parts' = parts]_vars

\* a merged group that folds the groups of two shards which differ in db,
\* first_seen and duration
MergedGroupOfTwoShards ==
    /\ pc = "done"
    /\ \E g \in Groups(merged) :
          LET gs == Contributing(g.fingerprint)
          IN  /\ Len(gs) >= 2
              /\ gs[1].db # gs[2].db
              /\ gs[1].first_seen # gs[2].first_seen
              /\ gs[1].max_time_s < gs[2].max_time_s
              /\ g.samples >= 3

-----------------------------------------------------------------------------
(* Properties of the shard-local map *)

\* the lines of the record the line loop is reading: from the last
\* "# Time:" line on
PendingLines ==
    LET at == CHOOSE i \in 1..Len(text) :
                  /\ text[i].k = "time"
                  /\ \A j \in (i + 1)..Len(text) : text[j].k # "time"
    IN  SubSeq(text, at, Len(text))

\* the value of the "# User@Host:" line of the record being read, or None
PendingUserHost ==
    IF \E i \in 1..Len(PendingLines) :
           PendingLines[i] = CommentLine(<<"User@Host:", "root">>)
    THEN "root" ELSE None

\* the next flush hands add_entry a record that passes its filters
PendingIsAccepted ==
    /\ pc = "parse"
    /\ chunk.sql_buf # <<>>
    /\ Pending.query_time # NoNum
    /\ RejectedBy(Pending) = "none"

\* the shard's state after the step that flushes the pending record
AfterFlush == IF Len(parts') > Len(parts) THEN parts'[Len(parts')] ELSE chunk'

\* C17: when an accepted record is counted into a group, the group's db,
\* user_host and main_table are what they were if non-empty, and else the
\* record's value: its db (its "use" line or the last one seen), the value of
\* its "# User@Host:" line and the main table of its statement
FirstNonEmptyAttributes ==
    [][ PendingIsAccepted =>
          LET fp  == fingerprint(Pending.sql)
              at  == FindGroup(chunk.result, fp)
              old == IF at = 0
                     THEN [db |-> None, user_host |-> None, main_table |-> None]
                     ELSE chunk.result[at]
              new == GroupOf(AfterFlush.result, fp)
          IN  /\ new.db = IF Truthy(old.db) THEN old.db ELSE Pending.db
              /\ new.user_host = IF Truthy(old.user_host) THEN old.user_host
                                 ELSE PendingUserHost
              /\ new.main_table = IF Truthy(old.main_table) THEN old.main_table
                                  ELSE extract_main_table(Pending.sql) ]_vars

\* first_seen and last_seen of g are both null, or both set and in order
SeenInOrder(g) ==
    \/ g.first_seen = None /\ g.last_seen = None
    \/ /\ g.first_seen # None /\ g.last_seen # None
       /\ ~StrLess(g.last_seen, g.first_seen)

\* the non-empty time, start, end and set_timestamp strings of the pending
\* record
PendingTimes ==
    {v \in {Pending.time, Pending.start, Pending.end, Pending.set_timestamp} :
        Truthy(v)}

\* first_seen and last_seen of the groups of fingerprint fp in the maps ms
SeenIn(ms, fp, field) ==
    {m[FindGroup(m, fp)][field] : m \in {x \in ms : FindGroup(x, fp) # 0}}
        \ {None}

\* a flush of an accepted record makes first_seen and last_seen of its
\* group the minimum and maximum of what they were and the record's time
\* strings, and leaves those of the other groups alone
AcceptedFlushWidens ==
    PendingIsAccepted =>
        \A g \in Groups(AfterFlush.result) :
            LET times == IF g.fingerprint = fingerprint(Pending.sql)
                         THEN PendingTimes ELSE {}
            IN  /\ g.first_seen =
                       Earliest(SeenIn({chunk.result}, g.fingerprint, "first_seen")
                                \cup times)
                /\ g.last_seen =
                       Latest(SeenIn({chunk.result}, g.fingerprint, "last_seen")
                              \cup times)

\* a flush of a record add_entry does not accept changes no group
RejectedFlushKeeps ==
    (pc = "parse" /\ chunk.sql_buf # <<>> /\ ~PendingIsAccepted)
        => AfterFlush.result = chunk.result

\* a merge round makes first_seen and last_seen of a merged group the
\* minimum and maximum of the non-null values of the two groups merged
MergeRoundWidens ==
    (pc = "merge" /\ nmerged' = nmerged + 1) =>
        \A g \in Groups(merged') :
            LET both == {merged, parts[order[nmerged + 1]].result}
            IN  /\ g.first_seen = Earliest(SeenIn(both, g.fingerprint, "first_seen"))
                /\ g.last_seen = Latest(SeenIn(both, g.fingerprint, "last_seen"))

\* C18: in every state of a shard-local map and of the merged map each
\* group's first_seen and last_seen are both null, or both set with
\* first_seen <= last_seen in string order; they are the minimum and maximum
\* of the non-empty time, start, end and set_timestamp strings of the records
\* accepted into the group, flush by flush and merge round by merge round,
\* and a rejected record changes neither
SeenSpansAcceptedRecords ==
    /\ [](\A map \in Maps : \A g \in Groups(map) : SeenInOrder(g))
    /\ [][AcceptedFlushWidens /\ RejectedFlushKeeps /\ MergeRoundWidens]_vars

\* a merged group of two samples of one moment, from two shards, one of
\* which rejected a record with an earlier and a later time string for the
\* time range
MergedSpanWithRejectedLater ==
    /\ pc = "done"
    /\ stats_total.filtered_time_range >= 1
    /\ \E g \in Groups(merged) :
          /\ Len(Contributing(g.fingerprint)) = 2
          /\ g.first_seen = "2024-01-15T10:30:00Z"
          /\ g.last_seen = "2024-01-15T10:30:00Z"

-----------------------------------------------------------------------------
(* Record accounting of one parse_chunk over a whole log *)

\* where the records of the lines ls begin
TimeLinesOf(ls) == {i \in 1..Len(ls) : ls[i].k = "time"}

\* the record of ls that begins at line i
RecordFrom(ls, i) ==
    LET later == {j \in TimeLinesOf(ls) : j > i}
        next  == IF later = {} THEN Len(ls) + 1
                 ELSE CHOOSE j \in later : \A k \in later : j <= k
    IN  SubSeq(ls, i, next - 1)

\* the records flushed so far: all the records read, but the one being read
\* while the line loop runs
FlushedRecords ==
    LET starts == TimeLinesOf(file)
        done   == IF pc # "parse" THEN starts
                  ELSE {i \in starts : \E j \in starts : j > i}
    IN  {<<i, RecordFrom(file, i)>> : i \in done}

\* the map and stats of the shard, in the line loop and once returned
ShardNow == IF pc = "parse" THEN chunk ELSE parts[1]

HasQueryTime(r) == \E i \in 1..Len(r) : r[i].k = "qtime"

\* the record's statement is one dump detection rejects
RejectedAsDump(r) ==
    /\ exclude_dumps
    /\ \E i \in 1..Len(r) : r[i].k = "sql" /\ LooksLikeDump(r[i].v)

FilteredTotal(stats) ==
    stats.filtered_dumps + stats.filtered_min_time + stats.filtered_time_range

\* parsed_records counts the flushed records
ParsedCountsFlushes ==
    ShardNow.stats.parsed_records = Cardinality(FlushedRecords)

\* the statement as claimed: every flushed record is a sample, or counted by
\* one filter, or has no query_time
ParsedIsSamplesFilteredAndNoQueryTime ==
    ShardNow.stats.parsed_records =
        TotalSamples(ShardNow.result) + FilteredTotal(ShardNow.stats)
        + Cardinality({x \in FlushedRecords : ~HasQueryTime(x[2])})

\* the flush of a record without query_time counts it in parsed_records and
\* changes neither a filter counter nor the map
NoQueryTimeFlushOnlyCounts ==
    (pc = "parse" /\ chunk.sql_buf # <<>> /\ Pending.query_time = NoNum)
        => /\ AfterFlush.stats.parsed_records = chunk.stats.parsed_records + 1
           /\ \A k \in FilterCounters : AfterFlush.stats[k] = chunk.stats[k]
           /\ AfterFlush.result = chunk.result

\* C19, as claimed: parsed_records is the number of flushed records, and the
\* sum of the samples, the three filter counters and the number of flushed
\* records without query_time; the flush of a record without query_time
\* counts it in parsed_records and changes no filter counter and no group
RecordAccounting ==
    /\ [](ParsedCountsFlushes /\ ParsedIsSamplesFilteredAndNoQueryTime)
    /\ [][NoQueryTimeFlushOnlyCounts]_vars

\* every flushed record is a sample, or counted by one filter, or has no
\* query_time and is no dump that dump detection rejects
ParsedIsSamplesFilteredAndDropped ==
    ShardNow.stats.parsed_records =
        TotalSamples(ShardNow.result) + FilteredTotal(ShardNow.stats)
        + Cardinality({x \in FlushedRecords :
                          ~HasQueryTime(x[2]) /\ ~RejectedAsDump(x[2])})

\* the flush of a record without query_time that dump detection does not
\* reject counts it in parsed_records and changes neither a filter counter
\* nor the map
DroppedFlushOnlyCounts ==
    (/\ pc = "parse" /\ chunk.sql_buf # <<>> /\ Pending.query_time = NoNum
     /\ ~(exclude_dumps /\ LooksLikeDump(Pending.sql)))
        => /\ AfterFlush.stats.parsed_records = chunk.stats.parsed_records + 1
           /\ \A k \in FilterCounters : AfterFlush.stats[k] = chunk.stats[k]
           /\ AfterFlush.result = chunk.result

\* C19, amended: parsed_records is the number of flushed records, and the sum
\* of the samples, the three filter counters and the number of flushed
\* records without query_time that dump detection did not reject; the flush
\* of such a record counts it in parsed_records and changes no filter counter
\* and no group
RecordAccountingExceptDumps ==
    /\ [](ParsedCountsFlushes /\ ParsedIsSamplesFilteredAndDropped)
    /\ [][DroppedFlushOnlyCounts]_vars

\* a parse has returned after a sample, a dump without query_time that was
\* counted in filtered_dumps, and a record without query_time that was
\* dropped
DumpWithoutQueryTimeCounted ==
    /\ pc = "done"
    /\ stats_total.parsed_records = 3
    /\ stats_total.filtered_dumps = 1
    /\ TotalSamples(merged) = 1
    /\ Cardinality({x \in FlushedRecords : ~HasQueryTime(x[2])}) = 2

-----------------------------------------------------------------------------
(* Properties of the sampler's verdict *)

\* the coverage and its type as a table of the file envelope [fs, fe] and
\* the target [ts, te] alone
CoverageTable(fs, fe, ts, te) ==
    IF Max2(fs, ts) > Min2(fe, te)
    THEN [coverage |-> <<0, 1>>, type |-> "no_overlap"]
    ELSE IF fs >= ts /\ fe <= te
         THEN [coverage |-> <<1, 1>>, type |-> "full_file_in_range"]
    ELSE IF ts >= fs /\ te <= fe
         THEN [coverage |-> <<1, 1>>, type |-> "full_range_covered"]
    ELSE LET overlap == Min2(fe, te) - Max2(fs, ts)
             dur     == fe - fs
         IN  IF 5 * overlap > 4 * dur
             THEN [coverage |-> <<9, 10>>, type |-> "mostly_covered"]
             ELSE IF 2 * overlap > dur
                  THEN [coverage |-> <<7, 10>>, type |-> "partially_covered"]
             ELSE [coverage |-> <<overlap, 2 * dur>>,
                   type |-> "limited_overlap"]

\* C20: when a moment is sampled, has_data_in_range is true exactly when a
\* sampled moment lies within the target, and the coverage and its type are
\* those of the table of the file envelope and the target; when no moment is
\* sampled, has_data_in_range is true and the coverage is 0.0
SamplerVerdictTable ==
    sample_result # <<>> =>
        LET r == sample_result[1]
        IN  IF r.sample_count = 0
            THEN r.has_data_in_range /\ r.estimated_coverage = <<0, 1>>
            ELSE LET times == r.sample_times
                     table == CoverageTable(MinSeq(times), MaxSeq(times),
                                            time_range[1], time_range[2])
                 IN  /\ r.has_data_in_range <=>
                            \E i \in 1..Len(times) :
                                /\ time_range[1] <= times[i]
                                /\ times[i] <= time_range[2]
                     /\ r.estimated_coverage = table.coverage
                     /\ r.coverage_type = table.type

-----------------------------------------------------------------------------
(* Properties of the time-range filter *)

TimeFields == {"time", "set_timestamp", "start", "end"}

\* the entry passes dump detection, has a query_time, and it is not below
\* min_time
PassesEarlierChecks(entry) ==
    /\ ~(exclude_dumps /\ LooksLikeDump(entry.sql))
    /\ entry.query_time # NoNum
    /\ entry.query_time >= min_time

\* one of the entry's time fields is present and parses to a moment of the
\* target range
SomeFieldInRange(entry) ==
    \E k \in TimeFields :
        /\ Truthy(entry[k])
        /\ parse_mysql_time(entry[k]) # NoNum
        /\ time_range[1] <= parse_mysql_time(entry[k])
        /\ parse_mysql_time(entry[k]) <= time_range[2]

\* C21: with a time range set, the flush of a record that passed the dump,
\* query_time and min_time checks counts it as a sample exactly when one of
\* its fields time, set_timestamp, start, end is present and parses to a
\* moment of the range; otherwise the map is unchanged and
\* filtered_time_range grows by one
TimeRangeFilter ==
    [][ (/\ pc = "parse" /\ chunk.sql_buf # <<>> /\ time_range # <<>>
         /\ PassesEarlierChecks(Pending))
          => IF SomeFieldInRange(Pending)
             THEN /\ TotalSamples(AfterFlush.result)
                        = TotalSamples(chunk.result) + 1
                  /\ AfterFlush.stats.filtered_time_range
                        = chunk.stats.filtered_time_range
             ELSE /\ AfterFlush.result = chunk.result
                  /\ AfterFlush.stats.filtered_time_range
                        = chunk.stats.filtered_time_range + 1 ]_vars

\* a parse has returned after three records: one accepted for its End alone,
\* its time being unparseable, and two rejected, one with no parseable time
\* field inside the range and one with every field outside it
AcceptedByLastFallback ==
    /\ pc = "done"
    /\ file = << TimeLine(<<"garbage">>),
                 QueryTimeLine(<<"1.5", "Start:", "garbage", "End:",
                                 "2024-01-15T10:30:00Z">>),
                 SqlLine(Select1),
                 TimeLine(<<>>),
                 QueryTimeLine(<<"1.5", "Start:", "garbage", "End:",
                                 "1705401000">>),
                 SqlLine(Select1),
                 TimeLine(<<"2024-01-16T10:30:00Z">>),
                 QueryTimeLine(<<"1.5", "Start:", "2024-01-16T10:30:00Z">>),
                 SetTimestampLine(<<"1705401000">>), SqlLine(Select1) >>
    /\ TotalSamples(merged) = 1
    /\ stats_total.filtered_time_range = 2

-----------------------------------------------------------------------------
(* Properties of the records the line loop hands to add_entry *)

\* the next step of the line loop flushes a record: a "# Time:" line after
\* SQL, or the end of the shard
AboutToFlush ==
    /\ pc = "parse"
    /\ chunk.sql_buf # <<>>
    /\ \/ pos = Len(text)
       \/ pos < Len(text) /\ text[pos + 1].k = "time" /\ chunk.started

\* the lines read so far from the most recent "# Time:" line on
SinceLastTime ==
    LET at == CHOOSE i \in 1..pos :
                  /\ text[i].k = "time"
                  /\ \A j \in (i + 1)..pos : text[j].k # "time"
    IN  SubSeq(text, at, pos)

HeaderFields ==
    {"query_time", "lock_time", "rows_sent", "rows_examined", "start", "end",
     "set_timestamp", "db"}

\* C23: the record a flush hands to add_entry carries, in query_time,
\* lock_time, rows_sent, rows_examined, start, end, set_timestamp and db,
\* only what the lines from the most recent "# Time:" line before its SQL
\* set, starting from null fields
HeaderFieldsDoNotLeak ==
    (/\ AboutToFlush
     /\ \E i \in 1..pos : text[i].k = "time"
     /\ \E i \in 2..Len(SinceLastTime) : SinceLastTime[i].k = "sql")
        => \A k \in HeaderFields :
               chunk.current[k] = Steps(NewChunk, SinceLastTime).current[k]

\* the texts of the SQL lines among the lines ls, in order
RECURSIVE SqlLinesOf(_)
SqlLinesOf(ls) ==
    IF ls = <<>> THEN <<>>
    ELSE (IF Head(ls).k = "sql" THEN <<Head(ls).v>> ELSE <<>>)
         \o SqlLinesOf(Tail(ls))

\* C24: the SQL of the record a flush hands to add_entry is made of the SQL
\* lines from the record's "# Time:" line to the flush, and of no line read
\* before that "# Time:" line
SqlBelongsToOneRecord ==
    (AboutToFlush /\ \E i \in 1..pos : text[i].k = "time")
        => chunk.sql_buf = SqlLinesOf(SinceLastTime)

-----------------------------------------------------------------------------
(* Properties of the worker pool *)

\* merge_results has been called
MergeCalled == pc \in {"merge", "done"}

\* the pool has min(jobs, shard_count) workers and no shard is handed to a
\* second task
OneTaskPerShard ==
    pool # <<>> =>
        /\ DOMAIN pool.busy = 1..Min2(max_parts, Len(shards))
        /\ \A i \in 1..Len(shards) : pool.runs[i] <= 1

\* merge_results is called when every task has run once and returned, with
\* the results of the shards in the order of the shard list
MergeAfterBarrier ==
    MergeCalled =>
        /\ \A w \in DOMAIN pool.busy : pool.busy[w] = 0
        /\ \A i \in 1..Len(shards) : pool.runs[i] = 1 /\ results[i] # <<>>
        /\ Len(parts) = Len(shards)
        /\ \A i \in 1..Len(shards) :
              LET r == parse_chunk(file, eol, shards[i][1], shards[i][2])
              IN  parts[i] = [result |-> r.result, stats |-> r.stats]
        /\ order = Identity(Len(shards))

\* once called, merge_results is not called again on another list
MergeNotCalledAgain ==
    MergeCalled => (MergeCalled' /\ parts' = parts /\ order' = order)

\* C22: for every shard list and every interleaving of the
\* min(jobs, shard_count) workers, each shard is parsed by one task,
\* merge_results is called, once, after every task has returned, and it
\* receives one result per shard in the order of the shard list
WorkerPoolBarrier ==
    /\ [](OneTaskPerShard /\ MergeAfterBarrier)
    /\ [][MergeNotCalledAgain]_vars
    /\ [](pc = "map" => <>MergeCalled)

\* the part of C22 that does not say that merge_results is called
WorkerPoolBarrierWhenCalled ==
    /\ [](OneTaskPerShard /\ MergeAfterBarrier)
    /\ [][MergeNotCalledAgain]_vars

====
